---- MODULE Spec2Model ----
(***************************************************************************)
(* Model of the TFT comp-stats harvesting pipeline (tft-analyzer-api).     *)
(*                                                                         *)
(* The repository holds several drafts of the same pipeline.  Each         *)
(* component below is modelled from the draft(s) that implement it, and a  *)
(* "script" variable says which draft a run executes:                      *)
(*   "part_001"  src/unnamed/part_001 (throttled mjs script + RateGate)    *)
(*   "mjs1"      src/scripts/update_comp_stats.mjs, first script (1-159)   *)
(*   "mjs2"      src/scripts/update_comp_stats.mjs, second script (162-291)*)
(*   "part_002"  src/unnamed/part_002 (fetchDiamondPlusSeeds)              *)
(*   "part_004"  src/unnamed/part_004 (riot fetch helper)                  *)
(*   "part_005a" src/unnamed/part_005, first script (1-106)                *)
(*   "riot_ts"   src/src/riot.ts (seed collector, lookups)                 *)
(*   "part_005"  src/unnamed/part_005, second script (108-373, mapPool)    *)
(*   "part_006"  src/unnamed/part_006 (winner-only updateCompStats.ts)     *)
(*   "ts1"       src/src/updateCompStats.ts, first script (1-162)          *)
(*                                                                         *)
(* Components, each with its own specification:                            *)
(*   SpecGate     RateGate.wait                                            *)
(*   SpecPublish  the publish step of a run                                *)
(*   SpecKey      composition keys (pure functions)                        *)
(*   SpecCollect  match-id listing, dedup, detail fetch (loop / mapPool)   *)
(*   SpecGateFair the gate with timers that fire and fair callers           *)
(*   SpecAgg      queue filter, fold, min-sample filter, ranking           *)
(*   SpecFold     part_001's fold over placements 1..8, repeated units     *)
(*   SpecTransport  one request: throttle, fetch, 429 retry                *)
(*   SpecSeeds    ladder walk of seed discovery                            *)
(*   SpecResolve  summoner id -> puuid for a batch of seeds                *)
(*   SpecRun      the stages of one run, static catalog first              *)
(*   SpecCred     startup with or without RIOT_API_KEY                     *)
(*   SpecIdent    resolved identities handed to match-id listing           *)
(*   SpecThrottle the throttle under concurrent callers                    *)
(*   SpecCap      pullMatches against its hard cap, by set size            *)
(***************************************************************************)
EXTENDS Integers, Sequences, FiniteSets, TLC

VARIABLES
  \* ---- RateGate
  perSec, per2Min, clock, ticks, last20, last100, gpc, wakeAt, granted, blocked,
  \* ---- publish step
  pscript, ppc, newComps, haveSeeds, published, tmpFile, prevDoc, runs,
  \* ---- composition keys
  kfn, champByApi, r1, r2, key1, key2, kpc,
  \* ---- match collection
  cscript, limit, lpos, relisted, idSet, cpc, next, active, out, status,
  settled, fetchLog, matches,
  failedList, gotIds, fnResult, outOfOrder,
  \* ---- aggregation
  ascript, allowList, minSample, apc, curQueue, compMap, order, foldLog,
  nSeen, comps, unitMap,
  \* ---- transport (one request)
  tscript, tpc, attempts, passes, respLog, sleepLog, outcome, hdrLog,
  \* ---- seed discovery
  sscript, maxSeeds, stage, sidx, page, seeds, seedOut, delivered, lateReq, countStop,
  asked, failedAt, lastReq,
  \* ---- seed resolution
  rscript, rpc, rstate, puuids, resLog,
  \* ---- one run of the pipeline
  uscript, upc, patch, catalogLog, nSeeds, nMatches, nComps,
  \* ---- startup with or without the credential
  vscript, hasKey, vpc, netCalls, skipped, callLog,
  \* ---- resolved identities handed to match-id listing
  iscript, seedCap, ipc, ipos, idents, listed,
  \* ---- throttle passes of concurrent callers
  hscript, rateDelay, tnow, lastHit, hostHit, thpc, thHost, until, waited, owed, fetchAt,
  \* ---- size of the id set against the hard cap
  countPer, hpos, hsize, hpc, detailReqs

gateVars == <<perSec, per2Min, clock, ticks, last20, last100, gpc, wakeAt, granted,
              blocked>>
pubVars  == <<pscript, ppc, newComps, haveSeeds, published, tmpFile, prevDoc, runs>>
keyVars  == <<kfn, champByApi, r1, r2, key1, key2, kpc>>
colVars  == <<cscript, limit, lpos, relisted, idSet, cpc, next, active, out, status,
              settled, fetchLog, matches, failedList, gotIds, fnResult, outOfOrder>>
aggVars  == <<ascript, allowList, minSample, apc, curQueue, compMap, order, foldLog,
              nSeen, comps, unitMap>>
trVars == <<tscript, tpc, attempts, passes, respLog, sleepLog, outcome, hdrLog>>
seedVars == <<sscript, maxSeeds, stage, sidx, page, seeds, seedOut, delivered, lateReq, countStop,
              asked, failedAt, lastReq>>
resVars == <<rscript, rpc, rstate, puuids, resLog>>
runVars == <<uscript, upc, patch, catalogLog, nSeeds, nMatches, nComps>>
credVars == <<vscript, hasKey, vpc, netCalls, skipped, callLog>>
identVars == <<iscript, seedCap, ipc, ipos, idents, listed>>
thVars == <<hscript, rateDelay, tnow, lastHit, hostHit, thpc, thHost, until, waited, owed, fetchAt>>
capVars == <<countPer, hpos, hsize, hpc, detailReqs>>
vars == <<gateVars, pubVars, keyVars, colVars, aggVars, trVars, seedVars, resVars, runVars, credVars, identVars, thVars, capVars>>

\* ---------------------------------------------------------------------
\* Generic helpers
\* ---------------------------------------------------------------------
Min(a, b) == IF a <= b THEN a ELSE b
Max(a, b) == IF a >= b THEN a ELSE b
Range(s) == {s[i] : i \in 1..Len(s)}
Take(s, n) == SubSeq(s, 1, Min(n, Len(s)))

\* Each component's actions leave the other components alone.
GateOnly == UNCHANGED <<pubVars, keyVars, colVars, aggVars, trVars, seedVars, resVars, runVars, credVars, identVars, thVars, capVars>>
PublishOnly == UNCHANGED <<gateVars, keyVars, colVars, aggVars, trVars, seedVars, resVars, runVars, credVars, identVars, thVars, capVars>>
KeyOnly == UNCHANGED <<gateVars, pubVars, colVars, aggVars, trVars, seedVars, resVars, runVars, credVars, identVars, thVars, capVars>>
CollectOnly == UNCHANGED <<gateVars, pubVars, keyVars, aggVars, trVars, seedVars, resVars, runVars, credVars, identVars, thVars, capVars>>
AggOnly == UNCHANGED <<gateVars, pubVars, keyVars, colVars, trVars, seedVars, resVars, runVars, credVars, identVars, thVars, capVars>>
TransportOnly == UNCHANGED <<gateVars, pubVars, keyVars, colVars, aggVars, seedVars, resVars, runVars, credVars, identVars, thVars, capVars>>
SeedsOnly == UNCHANGED <<gateVars, pubVars, keyVars, colVars, aggVars, trVars, resVars, runVars, credVars, identVars, thVars, capVars>>
ResolveOnly == UNCHANGED <<gateVars, pubVars, keyVars, colVars, aggVars, trVars, seedVars, runVars, credVars, identVars, thVars, capVars>>
RunOnly == UNCHANGED <<gateVars, pubVars, keyVars, colVars, aggVars, trVars, seedVars, resVars, credVars, identVars, thVars, capVars>>
CredOnly == UNCHANGED <<gateVars, pubVars, keyVars, colVars, aggVars, trVars, seedVars, resVars, runVars, identVars, thVars, capVars>>
IdentOnly == UNCHANGED <<gateVars, pubVars, keyVars, colVars, aggVars, trVars, seedVars, resVars, runVars, credVars, thVars, capVars>>
ThrottleOnly == UNCHANGED <<gateVars, pubVars, keyVars, colVars, aggVars, trVars, seedVars, resVars, runVars, credVars, identVars, capVars>>
CapOnly == UNCHANGED <<gateVars, pubVars, keyVars, colVars, aggVars, trVars, seedVars, resVars, runVars, credVars, identVars, thVars>>

\* A component that a specification does not exercise stays in this state.
ParkGate ==
  /\ perSec = 0 /\ per2Min = 0 /\ clock = 0 /\ ticks = 0
  /\ last20 = <<>> /\ last100 = <<>> /\ gpc = <<>> /\ wakeAt = <<>>
  /\ granted = <<>> /\ blocked = <<>>
ParkPublish ==
  /\ pscript = "none" /\ ppc = "idle" /\ newComps = 0 /\ haveSeeds = TRUE
  /\ published = <<>> /\ tmpFile = <<>> /\ prevDoc = <<>>
  /\ runs = 0
ParkKey ==
  /\ kfn = "none" /\ champByApi = <<>> /\ r1 = <<>> /\ r2 = <<>>
  /\ key1 = <<>> /\ key2 = <<>>
  /\ kpc = "idle"
ParkCollect ==
  /\ cscript = "none" /\ limit = 0 /\ lpos = 0 /\ relisted = {} /\ idSet = <<>>
  /\ cpc = "idle" /\ next = 0 /\ active = 0 /\ out = <<>> /\ status = <<>>
  /\ settled = "pending" /\ fetchLog = <<>> /\ matches = <<>>
  /\ failedList = {} /\ gotIds = {} /\ fnResult = <<>> /\ outOfOrder = FALSE
ParkAgg ==
  /\ ascript = "none" /\ allowList = {} /\ minSample = 0 /\ apc = "idle"
  /\ curQueue = <<>> /\ compMap = <<>> /\ order = <<>> /\ foldLog = <<>>
  /\ nSeen = 0 /\ comps = <<>> /\ unitMap = <<>>
ParkTransport ==
  /\ tscript = "none" /\ tpc = "idle" /\ attempts = 0 /\ passes = 0
  /\ respLog = <<>> /\ sleepLog = <<>> /\ outcome = "none" /\ hdrLog = <<>>
ParkSeeds ==
  /\ sscript = "none" /\ maxSeeds = 0 /\ stage = "idle" /\ sidx = 0 /\ page = 0
  /\ seeds = <<>> /\ seedOut = <<>> /\ delivered = 0
  /\ lateReq = FALSE /\ countStop = FALSE
  /\ asked = {} /\ failedAt = {} /\ lastReq = <<>>
ParkResolve ==
  /\ rscript = "none" /\ rpc = "idle" /\ rstate = <<>> /\ puuids = <<>> /\ resLog = <<>>
ParkRun ==
  /\ uscript = "none" /\ upc = "idle" /\ patch = "" /\ catalogLog = <<>>
  /\ nSeeds = 0 /\ nMatches = 0 /\ nComps = 0
ParkCred ==
  /\ vscript = "none" /\ hasKey = FALSE /\ vpc = "idle" /\ netCalls = 0 /\ skipped = 0 /\ callLog = <<>>
ParkIdent ==
  /\ iscript = "none" /\ seedCap = 0 /\ ipc = "idle" /\ ipos = 0 /\ idents = <<>> /\ listed = <<>>
ParkThrottle ==
  /\ hscript = "none" /\ rateDelay = 0 /\ tnow = 0 /\ lastHit = <<>> /\ hostHit = <<>> /\ thpc = <<>> /\ thHost = <<>> /\ until = <<>> /\ waited = <<>> /\ owed = <<>> /\ fetchAt = <<>>
ParkCap ==
  /\ countPer = 0 /\ hpos = 0 /\ hsize = 0 /\ hpc = "idle" /\ detailReqs = 0

\* =====================================================================
\* RateGate (src/unnamed/part_001:230-266)
\* =====================================================================
SecWindowMs == 1000
TwoMinWindowMs == 120000
MinSleepMs == 5

\* bounds of the gate model
NumCallers == 3
MaxTicks == 3

Callers == 1..NumCallers
\* constructor arguments <<perSec, per2Min>> the model explores
GateConfigs == {<<1, 1>>, <<1, 2>>, <<2, 2>>, <<2, 3>>}
\* clock advances the model explores: just inside a 1 s window, exactly one
\* 1 s window, and the remainder of a 120 s window
ClockSteps == {SecWindowMs - 1, SecWindowMs, TwoMinWindowMs - 2 * SecWindowMs}

\* evictOld keeps the timestamps strictly younger than the window
Younger(seq, cutoff) == SelectSeq(seq, LAMBDA t : t > cutoff)
EvictShort(now) == Younger(last20, now - SecWindowMs)
EvictLong(now) == Younger(last100, now - TwoMinWindowMs)

\* the admission test of wait(), on the evicted windows
MutAdmits(l20, l100) == Len(l20) <= perSec /\ Len(l100) < per2Min
Admits(l20, l100) == Len(l20) < perSec /\ Len(l100) < per2Min

\* a sleep without the floor of Math.max
MutSleepFor(l20, l100, now) ==
  LET next1s == (IF Len(l20) > 0 THEN l20[1] ELSE now) + SecWindowMs - now
      next2m == (IF Len(l100) > 0 THEN l100[1] ELSE now) + TwoMinWindowMs - now
  IN Min(next1s, next2m)
\* (this.last20[0] ?? now) + 1000 - now, and the same for the long window
SleepFor(l20, l100, now) ==
  LET next1s == (IF Len(l20) > 0 THEN l20[1] ELSE now) + SecWindowMs - now
      next2m == (IF Len(l100) > 0 THEN l100[1] ELSE now) + TwoMinWindowMs - now
  IN Max(MinSleepMs, Min(next1s, next2m))

InitGate ==
  /\ \E cfg \in GateConfigs : perSec = cfg[1] /\ per2Min = cfg[2]
  /\ clock = 0 /\ ticks = 0
  /\ last20 = <<>> /\ last100 = <<>>
  /\ gpc = [c \in Callers |-> "check"]
  /\ wakeAt = [c \in Callers |-> 0]
  /\ granted = <<>>
  /\ blocked = [c \in Callers |-> FALSE]
  /\ ParkPublish /\ ParkKey /\ ParkCollect /\ ParkAgg /\ ParkTransport /\ ParkSeeds /\ ParkResolve /\ ParkRun /\ ParkCred /\ ParkIdent /\ ParkThrottle /\ ParkCap

\* Every caller has invoked wait(); its first loop iteration reads the clock
\* when it is scheduled, so a caller still at "check" stands for one that
\* arrives at any later time.
\* one loop iteration that admits the caller: evict, test, push, then jitter
GateAdmit(c) ==
  /\ gpc[c] = "check"
  /\ LET now == clock
         l20 == EvictShort(now)
         l100 == EvictLong(now)
     IN /\ Admits(l20, l100)
        /\ last20' = Append(l20, now)
        /\ last100' = Append(l100, now)
        /\ granted' = Append(granted, now)
  /\ gpc' = [gpc EXCEPT ![c] = "jitter"]
  /\ UNCHANGED <<perSec, per2Min, clock, ticks, wakeAt, blocked>>
  /\ GateOnly

\* one loop iteration that finds a window saturated: evict, test, sleep
GateBlock(c) ==
  /\ gpc[c] = "check"
  /\ LET now == clock
         l20 == EvictShort(now)
         l100 == EvictLong(now)
     IN /\ ~Admits(l20, l100)
        /\ last20' = l20
        /\ last100' = l100
        /\ wakeAt' = [wakeAt EXCEPT ![c] = now + SleepFor(l20, l100, now)]
  /\ gpc' = [gpc EXCEPT ![c] = "sleeping"]
  /\ blocked' = [blocked EXCEPT ![c] = TRUE]
  /\ UNCHANGED <<perSec, per2Min, clock, ticks, granted>>
  /\ GateOnly

\* the sleep timer fires (never early) and the loop runs again
GateWake(c) ==
  /\ gpc[c] = "sleeping"
  /\ clock >= wakeAt[c]
  /\ gpc' = [gpc EXCEPT ![c] = "check"]
  /\ wakeAt' = [wakeAt EXCEPT ![c] = 0]
  /\ UNCHANGED <<perSec, per2Min, clock, ticks, last20, last100, granted, blocked>>
  /\ GateOnly

\* the jitter timer fires and wait() returns
GateReturn(c) ==
  /\ gpc[c] = "jitter"
  /\ gpc' = [gpc EXCEPT ![c] = "done"]
  /\ UNCHANGED <<perSec, per2Min, clock, ticks, last20, last100, wakeAt, granted, blocked>>
  /\ GateOnly

\* Date.now() moves forward
GateTick(d) ==
  /\ ticks < MaxTicks
  /\ clock' = clock + d
  /\ ticks' = ticks + 1
  /\ UNCHANGED <<perSec, per2Min, last20, last100, gpc, wakeAt, granted, blocked>>
  /\ GateOnly

NextGate ==
  \/ \E c \in Callers : GateAdmit(c)
  \/ \E c \in Callers : GateBlock(c)
  \/ \E c \in Callers : GateWake(c)
  \/ \E c \in Callers : GateReturn(c)
  \/ \E d \in ClockSteps : GateTick(d)

SpecGate == InitGate /\ [][NextGate]_vars

\* the callers asleep in setTimeout, and the earliest time one is due
Sleepers == {c \in Callers : gpc[c] = "sleeping"}
NextDue == CHOOSE t \in {wakeAt[c] : c \in Sleepers} : \A c \in Sleepers : t <= wakeAt[c]

\* Date.now() reaches the time the earliest pending sleep is due; the
\* iterations of wait() that are ready to run read the clock first
GateElapse ==
  /\ Sleepers # {}
  /\ \A c \in Callers : gpc[c] \in {"sleeping", "done"}
  /\ clock < NextDue
  /\ clock' = NextDue
  /\ UNCHANGED <<perSec, per2Min, ticks, last20, last100, gpc, wakeAt, granted, blocked>>
  /\ GateOnly

\* bounds of the fair gate model: calls of wait() in progress, and pauses
\* between their arrivals
NumWaiting == 2
MaxPauses == 1

\* NumWaiting callers have invoked wait(); the others have no call in progress
InitGateFair ==
  /\ \E cfg \in GateConfigs : perSec = cfg[1] /\ per2Min = cfg[2]
  /\ clock = 0 /\ ticks = 0
  /\ last20 = <<>> /\ last100 = <<>>
  /\ gpc = [c \in Callers |-> IF c <= NumWaiting THEN "check" ELSE "done"]
  /\ wakeAt = [c \in Callers |-> 0]
  /\ granted = <<>>
  /\ blocked = [c \in Callers |-> FALSE]
  /\ ParkPublish /\ ParkKey /\ ParkCollect /\ ParkAgg /\ ParkTransport /\ ParkSeeds /\ ParkResolve /\ ParkRun /\ ParkCred /\ ParkIdent /\ ParkThrottle /\ ParkCap

\* time passes between the arrival of one call and the next, while no call
\* is asleep
GatePause ==
  /\ Sleepers = {}
  /\ ticks < MaxPauses
  /\ clock' = clock + (SecWindowMs - 1)
  /\ ticks' = ticks + 1
  /\ UNCHANGED <<perSec, per2Min, last20, last100, gpc, wakeAt, granted, blocked>>
  /\ GateOnly

\* the steps of one wait() call
CallerStep(c) == GateAdmit(c) \/ GateBlock(c) \/ GateWake(c) \/ GateReturn(c)

NextGateFair ==
  \/ \E c \in Callers : GateAdmit(c)
  \/ \E c \in Callers : GateBlock(c)
  \/ \E c \in Callers : GateWake(c)
  \/ \E c \in Callers : GateReturn(c)
  \/ GatePause
  \/ GateElapse

\* The event loop runs every continuation that is ready (a timer that is due,
\* a loop iteration), and the clock does not stop short of a pending timer.
SpecGateFair ==
  /\ InitGateFair /\ [][NextGateFair]_vars
  /\ \A c \in Callers : WF_vars(CallerStep(c))
  /\ WF_vars(GateElapse)

\* C37: every wait() call returns in the end when the clock keeps advancing,
\* whatever the number of callers in the gate at once and whatever the
\* positive perSec and per2Min; and a caller that finds a window saturated
\* sleeps at least 5 ms before it looks again.
C37_WaitReturns ==
  /\ <>(\A c \in Callers : gpc[c] = "done")
  /\ [][\A c \in Callers :
         (gpc[c] = "check" /\ gpc'[c] = "sleeping") =>
           wakeAt'[c] >= clock + MinSleepMs]_vars
\* every call has returned, one of them after sleeping in the gate
C37_Witness ==
  /\ \A c \in Callers : gpc[c] = "done"
  /\ Len(granted) >= 2
  /\ \E c \in Callers : blocked[c]

\* number of admissions with a timestamp in the trailing window (t - w, t]
GrantsIn(t, w) == Cardinality({i \in 1..Len(granted) : granted[i] > t - w /\ granted[i] <= t})
\* the count over (t - w, t] is largest for a t that is itself an admission
\* time, so checking those t (and the current time) covers every t
WindowEnds == Range(granted) \cup {clock}

\* C1: in every trailing 1000 ms window at most perSec wait() calls are
\* admitted, and in every trailing 120000 ms window at most per2Min, for
\* every interleaving of callers and every clock progression.
C1_RateWindows ==
  \A t \in WindowEnds :
    /\ GrantsIn(t, SecWindowMs) <= perSec
    /\ GrantsIn(t, TwoMinWindowMs) <= per2Min

\* C1 witness: a window was saturated, a later call was admitted once the
\* oldest entry had left it, and the gate is saturated again with a caller
\* asleep.
C1_Witness ==
  /\ Len(granted) > Min(perSec, per2Min)
  /\ \E c \in Callers : gpc[c] = "sleeping"

\* =====================================================================
\* Publish step
\*   part_001  src/unnamed/part_001:206-223   temporary file, then rename
\*   part_006  src/unnamed/part_006:69-73,139,143-147   writeCompsJson
\*   mjs2      src/scripts/update_comp_stats.mjs:272-284   fs.writeFile
\* =====================================================================
\* bounds of the publish model
MaxComps == 2
MaxRuns == 3

PublishScripts == {"part_001", "part_006", "mjs2"}

\* A file is missing or holds a document with n comps; whole = FALSE is a
\* file that fs.writeFile has opened (truncated) and not yet written out.
Missing == [exists |-> FALSE, n |-> 0, whole |-> FALSE]
Doc(n) == [exists |-> TRUE, n |-> n, whole |-> TRUE]
Partial(n) == [exists |-> TRUE, n |-> n, whole |-> FALSE]
NonEmptyDoc(f) == f.exists /\ f.whole /\ f.n > 0

InitPublish ==
  /\ pscript = "none" /\ ppc = "idle" /\ newComps = 0 /\ haveSeeds = TRUE
  /\ published \in {Missing} \cup {Doc(n) : n \in 0..MaxComps}
  /\ tmpFile = Missing /\ prevDoc = Missing /\ runs = 0
  /\ ParkGate /\ ParkKey /\ ParkCollect /\ ParkAgg /\ ParkTransport /\ ParkSeeds /\ ParkResolve /\ ParkRun /\ ParkCred /\ ParkIdent /\ ParkThrottle /\ ParkCap

\* the comps list a run of part_006 hands to writeCompsJson: [] when no
\* seeds came back (line 71), the aggregated list otherwise (line 139)
CompsToWrite == IF pscript = "part_006" /\ ~haveSeeds THEN 0 ELSE newComps

\* A run reaches its publish step with n comps (the outcome of the stages
\* before it) and, for part_006, with or without seeds.
PubStart(s, n, got) ==
  /\ ppc = "idle" /\ runs < MaxRuns
  /\ got \/ (s = "part_006" /\ n = 0)
  /\ pscript' = s /\ newComps' = n /\ haveSeeds' = got
  /\ prevDoc' = published
  /\ runs' = runs + 1
  /\ ppc' = "write"
  /\ UNCHANGED <<published, tmpFile>>
  /\ PublishOnly

\* part_001:215  fs.writeFile(tmp, ...): open and truncate
PubOpenTmp ==
  /\ ppc = "write" /\ pscript = "part_001"
  /\ tmpFile' = Partial(newComps)
  /\ ppc' = "writing"
  /\ UNCHANGED <<pscript, newComps, haveSeeds, published, prevDoc, runs>>
  /\ PublishOnly

\* part_001:215  the write completes
PubWriteTmp ==
  /\ ppc = "writing" /\ pscript = "part_001"
  /\ tmpFile' = Doc(newComps)
  /\ ppc' = "decide"
  /\ UNCHANGED <<pscript, newComps, haveSeeds, published, prevDoc, runs>>
  /\ PublishOnly

\* part_001:217-219  comps.length > 0: rename tmp over comps.json
PubRename ==
  /\ ppc = "decide" /\ newComps > 0
  /\ published' = tmpFile
  /\ tmpFile' = Missing
  /\ ppc' = "done"
  /\ UNCHANGED <<pscript, newComps, haveSeeds, prevDoc, runs>>
  /\ PublishOnly

\* part_001:220-222  no comps: unlink tmp, comps.json untouched
PubUnlink ==
  /\ ppc = "decide" /\ ~(newComps > 0)
  /\ tmpFile' = Missing
  /\ ppc' = "done"
  /\ UNCHANGED <<pscript, newComps, haveSeeds, published, prevDoc, runs>>
  /\ PublishOnly

\* part_006:146 / mjs2:273  writeFile on comps.json itself: open and truncate
PubOpenDirect ==
  /\ ppc = "write" /\ pscript \in {"part_006", "mjs2"}
  /\ published' = Partial(CompsToWrite)
  /\ ppc' = "writing"
  /\ UNCHANGED <<pscript, newComps, haveSeeds, tmpFile, prevDoc, runs>>
  /\ PublishOnly

\* part_006:146 / mjs2:273  the write completes
PubWriteDirect ==
  /\ ppc = "writing" /\ pscript \in {"part_006", "mjs2"}
  /\ published' = Doc(CompsToWrite)
  /\ ppc' = "done"
  /\ UNCHANGED <<pscript, newComps, haveSeeds, tmpFile, prevDoc, runs>>
  /\ PublishOnly

\* the process is killed between two file operations; files stay as they are
PubCrash ==
  /\ ppc \in {"write", "writing", "decide"}
  /\ ppc' = "crashed"
  /\ UNCHANGED <<pscript, newComps, haveSeeds, published, tmpFile, prevDoc, runs>>
  /\ PublishOnly

\* the run is over; the next one may start
PubExit ==
  /\ ppc \in {"done", "crashed"}
  /\ ppc' = "idle"
  /\ UNCHANGED <<pscript, newComps, haveSeeds, published, tmpFile, prevDoc, runs>>
  /\ PublishOnly

NextPublish ==
  \/ \E s \in PublishScripts, n \in 0..MaxComps, got \in BOOLEAN : PubStart(s, n, got)
  \/ PubOpenTmp
  \/ PubWriteTmp
  \/ PubRename
  \/ PubUnlink
  \/ PubOpenDirect
  \/ PubWriteDirect
  \/ PubCrash
  \/ PubExit

SpecPublish == InitPublish /\ [][NextPublish]_vars

\* C2: a finished publish step (part_001, part_006) never leaves an empty
\* document where a non-empty comps.json was published before the run (the
\* previous artifact stays as it was), and with a non-empty comps list it
\* replaces an empty or missing previous artifact by the new document.
C2_NoClobber ==
  (pscript \in {"part_001", "part_006"} /\ ppc = "done") =>
    /\ NonEmptyDoc(prevDoc) =>
         (published = prevDoc \/ NonEmptyDoc(published))
    /\ (~NonEmptyDoc(prevDoc) /\ CompsToWrite > 0) =>
         published = Doc(CompsToWrite)

\* C3: at every point of a publish step (part_001, mjs2), a crash included,
\* comps.json reads as the complete previous document or the complete new
\* one, never as a partially written file.
C3_AtomicPublish ==
  (pscript \in {"part_001", "mjs2"} /\ ppc # "idle") =>
    (published = prevDoc \/ published = Doc(CompsToWrite))

\* =====================================================================
\* Composition keys
\*   keyOf      src/unnamed/part_001:64-65
\*   aggregate  src/unnamed/part_001:133-142  (first 9 units, display names)
\*   boardKey   src/src/types.ts:63-64
\* Strings are sequences of UTF-16 code units.
\* =====================================================================
Bar == 124
Space == 32
RosterCap == 9

\* bound of the key model: units in a roster besides the filler block
MaxCore == 2

UA == <<65>>
Ua == <<97>>
UB == <<66>>
UC == <<67>>
UD == <<68>>

\* String.prototype.toLowerCase on A-Z
LowerUnit(c) == IF c >= 65 /\ c <= 90 THEN c + 32 ELSE c
ToLowerCase(s) == [i \in 1..Len(s) |-> LowerUnit(s[i])]

\* String.prototype.trim
RECURSIVE TrimStart(_)
TrimStart(s) == IF s # <<>> /\ s[1] = Space THEN TrimStart(Tail(s)) ELSE s
RECURSIVE TrimEnd(_)
TrimEnd(s) ==
  IF s # <<>> /\ s[Len(s)] = Space THEN TrimEnd(SubSeq(s, 1, Len(s) - 1)) ELSE s
Trim(s) == TrimEnd(TrimStart(s))

\* const norm = (s) => String(s || "").toLowerCase().trim()
norm(s) == Trim(ToLowerCase(s))

\* the default comparison of Array.prototype.sort: by code units
RECURSIVE StrLess(_, _)
StrLess(a, b) ==
  IF b = <<>> THEN FALSE
  ELSE IF a = <<>> THEN TRUE
  ELSE IF a[1] # b[1] THEN a[1] < b[1]
  ELSE StrLess(Tail(a), Tail(b))

\* Array.prototype.sort (stable): insert x behind every element not above it
RECURSIVE InsertSorted(_, _)
InsertSorted(x, sorted) ==
  IF sorted = <<>> THEN <<x>>
  ELSE IF StrLess(x, sorted[1]) THEN <<x>> \o sorted
  ELSE <<sorted[1]>> \o InsertSorted(x, Tail(sorted))
RECURSIVE JsSort(_)
JsSort(arr) ==
  IF arr = <<>> THEN <<>>
  ELSE InsertSorted(arr[Len(arr)], JsSort(SubSeq(arr, 1, Len(arr) - 1)))

\* Array.prototype.join("|")
RECURSIVE JoinBar(_)
JoinBar(arr) ==
  IF arr = <<>> THEN <<>>
  ELSE IF Len(arr) = 1 THEN arr[1]
  ELSE arr[1] \o <<Bar>> \o JoinBar(Tail(arr))

\* const keyOf = (arr) => arr.map(norm).sort().join("|")
keyOf(arr) == JoinBar(JsSort([i \in 1..Len(arr) |-> norm(arr[i])]))

\* boardKey: units.map(u => u.character_id).filter(Boolean).sort().join("|")
boardKey(units) == JoinBar(JsSort(SelectSeq(units, LAMBDA u : u # <<>>)))

\* name: champByApi[u.character_id] || u.character_id
UnitName(table, u) ==
  IF u \in DOMAIN table /\ table[u] # <<>> THEN table[u] ELSE u

\* aggregate: (p.units || []).slice(0, 9), then keyOf(units.map(u => u.name))
AggUnits(table, units) ==
  LET cut == Take(units, RosterCap)
  IN [i \in 1..Len(cut) |-> UnitName(table, cut[i])]
AggregateKey(table, units) == keyOf(AggUnits(table, units))

\* ts1:49-52  units.map(u => u.character_id).sort().join('|')
compKey(units) == JoinBar(JsSort(units))

KeyFns == {"keyOf", "aggregate", "boardKey", "compKey"}
KeyBy(f, table, units) ==
  CASE f = "keyOf" -> keyOf(units)
    [] f = "compKey" -> compKey(units)
    [] f = "aggregate" -> AggregateKey(table, units)
    [] f = "boardKey" -> boardKey(units)

\* static name tables the model explores: no entry, and one display name
NoNames == [u \in {} |-> <<>>]
ChampTables == {NoNames, [u \in {UA} |-> <<65, 120>>]}

\* rosters the model explores: up to MaxCore units, alone or before or behind
\* a block of RosterCap other units (so that some rosters exceed the cap)
Filler == [i \in 1..RosterCap |-> <<109 + i>>]
KeyUnitIds == {UA, Ua, UB}
Cores == UNION {[1..n -> KeyUnitIds] : n \in 0..MaxCore}
RosterInputs == Cores \cup {Filler \o c : c \in Cores} \cup {c \o Filler : c \in Cores}

InitKey ==
  /\ kfn \in KeyFns
  /\ champByApi \in ChampTables
  /\ r1 \in RosterInputs /\ r2 \in RosterInputs
  /\ key1 = <<>> /\ key2 = <<>> /\ kpc = "start"
  /\ ParkGate /\ ParkPublish /\ ParkCollect /\ ParkAgg /\ ParkTransport /\ ParkSeeds /\ ParkResolve /\ ParkRun /\ ParkCred /\ ParkIdent /\ ParkThrottle /\ ParkCap

KeyFirst ==
  /\ kpc = "start"
  /\ key1' = KeyBy(kfn, champByApi, r1)
  /\ kpc' = "one"
  /\ UNCHANGED <<kfn, champByApi, r1, r2, key2>>
  /\ KeyOnly

KeySecond ==
  /\ kpc = "one"
  /\ key2' = KeyBy(kfn, champByApi, r2)
  /\ kpc' = "done"
  /\ UNCHANGED <<kfn, champByApi, r1, r2, key1>>
  /\ KeyOnly

NextKey == KeyFirst \/ KeySecond

SpecKey == InitKey /\ [][NextKey]_vars

\* the two rosters hold the same identifiers the same number of times, letter
\* case aside
CountOf(x, arr) == Cardinality({i \in 1..Len(arr) : ToLowerCase(arr[i]) = x})
SameUnits(a, b) ==
  /\ Len(a) = Len(b)
  /\ \A i \in 1..Len(a) :
       CountOf(ToLowerCase(a[i]), a) = CountOf(ToLowerCase(a[i]), b)

\* C4: two rosters whose unit identifiers form the same multiset get the
\* same composition key, whatever the order of the units and the letter case
\* of the identifiers, rosters of more than 9 units included.
C4_KeyCanonical ==
  (kpc = "done" /\ SameUnits(r1, r2)) => key1 = key2

\* C32: the composition key is built from the set of unit identifiers: a
\* roster that lists an identifier more than once gets the key of the roster
\* that lists it once (part_001 keyOf, updateCompStats.ts compKey).
C32_KeyOfUniqueUnits ==
  (kpc = "done" /\ kfn \in {"keyOf", "compKey"} /\ Range(r1) = Range(r2))
    => key1 = key2

\* =====================================================================
\* Match collection: id listing, dedup, detail fetch
\*   part_001  src/unnamed/part_001:98-118   pullMatches (sequential loop)
\*   part_005  src/unnamed/part_005:298-328  main, with mapPool (187-213)
\*   mjs2      src/scripts/update_comp_stats.mjs:235-250  main; its queue test
\*             (line 246) is part of the aggregation model
\* =====================================================================
HardCap == 120

\* bounds of the collection model
NumIdentities == 2
MaxPerListing == 2
MaxLimit == 2

CollectScripts == {"part_001", "part_005", "mjs2"}
\* the scripts that fetch the details one after the other
LoopFetchScripts == {"part_001", "mjs2"}
MatchIds == {"M1", "M2", "M3"}
\* what the id-listing endpoint may answer: up to MaxPerListing distinct ids
Listings ==
  {l \in UNION {[1..n -> MatchIds] : n \in 0..MaxPerListing} :
     \A i, j \in 1..Len(l) : i # j => l[i] # l[j]}

\* Set.prototype.add, the set kept in insertion order
MutAddId(set, id) == Append(set, id)
AddId(set, id) == IF id \in Range(set) THEN set ELSE Append(set, id)
\* ids.forEach(id => idSet.add(id))
RECURSIVE AddAll(_, _)
AddAll(set, ids) ==
  IF ids = <<>> THEN set ELSE AddAll(AddId(set, ids[1]), Tail(ids))

\* nEnv returns any finite Number(raw), fractions included: the variable
\* limit holds MATCH_CONCURRENCY counted in units of 1 / LimitUnit
LimitUnit == 2
WholeLimit == limit % LimitUnit = 0

\* kick's loop, while (active < limit && next < items.length): how many calls
\* it starts
RECURSIVE MutKickStarts(_, _, _)
MutKickStarts(act, nxt, n) ==
  IF act * LimitUnit <= limit /\ nxt < n
    THEN 1 + MutKickStarts(act + 1, nxt + 1, n) ELSE 0
RECURSIVE KickStarts(_, _, _)
KickStarts(act, nxt, n) ==
  IF act * LimitUnit < limit /\ nxt < n
    THEN 1 + KickStarts(act + 1, nxt + 1, n) ELSE 0
\* .finally's kick(), part_005:205-208: the calls started when a slot is freed
MutRefillStarts(act, nxt, n) == 0
RefillStarts(act, nxt, n) == KickStarts(act, nxt, n)
\* the calls with index from+1 .. from+k are started
StartCalls(st, from, k) ==
  [i \in DOMAIN st |-> IF i > from /\ i <= from + k THEN "inflight" ELSE st[i]]
\* a result stored behind the results that came before it
MutStoreAt(o, i, r) ==
  LET free == {j \in DOMAIN o : o[j] = "empty"}
  IN [o EXCEPT ![CHOOSE j \in free : \A k \in free : j <= k] = r]
\* part_005:203  .then((r) => (out[i] = r))
StoreAt(o, i, r) == [o EXCEPT ![i] = r]
\* kick's first line: next === items.length && active === 0
KickResolves(act, nxt, n) == nxt = n /\ act = 0

\* part_001:114 if (m) matches.push(m) / part_005:327 matches.filter(Boolean)
NoMatch == ""
MutKeeps(r) == TRUE
Keeps(r) == r = "match"

InFlight == Cardinality({i \in DOMAIN status : status[i] = "inflight"})

InitCollect ==
  /\ cscript \in CollectScripts
  /\ limit \in (IF cscript = "part_005" THEN 0..(MaxLimit * LimitUnit)
                                         ELSE {LimitUnit})
  /\ lpos = 0 /\ relisted = {} /\ idSet = <<>>
  /\ cpc = IF NumIdentities = 0 THEN "listed" ELSE "listing"
  /\ next = 0 /\ active = 0 /\ out = <<>> /\ status = <<>>
  /\ settled = "pending" /\ fetchLog = <<>> /\ matches = <<>>
  /\ failedList = {} /\ gotIds = {} /\ fnResult = <<>> /\ outOfOrder = FALSE
  /\ ParkGate /\ ParkPublish /\ ParkKey /\ ParkAgg /\ ParkTransport /\ ParkSeeds /\ ParkResolve /\ ParkRun /\ ParkCred /\ ParkIdent /\ ParkThrottle /\ ParkCap

\* the loop over puuids ends after the last one, or (part_001:105) at the cap
ListingOver(set, pos) ==
  \/ pos = NumIdentities
  \/ cscript = "part_001" /\ Len(set) >= HardCap

\* part_001:102-105 / part_005:301-303  one identity's listing answers
ColListOk(resp) ==
  /\ cpc = "listing"
  /\ LET set == AddAll(idSet, resp)
     IN /\ idSet' = set
        /\ cpc' = IF ListingOver(set, lpos + 1) THEN "listed" ELSE "listing"
  /\ relisted' = relisted \cup (Range(resp) \cap Range(idSet))
  /\ lpos' = lpos + 1
  /\ gotIds' = gotIds \cup Range(resp)
  /\ UNCHANGED <<cscript, limit, next, active, out, status, settled, fetchLog, matches>>
  /\ UNCHANGED failedList
  /\ UNCHANGED <<fnResult, outOfOrder>>
  /\ CollectOnly

\* a failed listing that ends the run
MutAfterListFail(set, pos) == "failed"
\* where the loop stands after a failed listing: the catch gives no ids and
\* the loop goes on
AfterListFail(set, pos) == IF ListingOver(set, pos) THEN "listed" ELSE "listing"

\* part_001:103 .catch(()=>[]) / part_005:304-306 / mjs2:236  the listing
\* call fails
ColListFail ==
  /\ cpc = "listing"
  /\ cpc' = AfterListFail(idSet, lpos + 1)
  /\ lpos' = lpos + 1
  /\ failedList' = failedList \cup {lpos + 1}
  /\ UNCHANGED <<cscript, limit, relisted, idSet, next, active, out, status, settled,
                 fetchLog, matches>>
  /\ UNCHANGED gotIds
  /\ UNCHANGED <<fnResult, outOfOrder>>
  /\ CollectOnly

\* part_001:108-112  matchIds = [...idSet], the fetch loop begins
ColStartLoop ==
  /\ cpc = "listed" /\ cscript \in LoopFetchScripts
  /\ status' = [i \in 1..Len(idSet) |-> "unstarted"]
  /\ out' = [i \in 1..Len(idSet) |-> "empty"]
  /\ next' = 0 /\ active' = 0
  /\ cpc' = "loop"
  /\ UNCHANGED <<cscript, limit, lpos, relisted, idSet, settled, fetchLog, matches>>
  /\ UNCHANGED <<failedList, gotIds>>
  /\ UNCHANGED <<fnResult, outOfOrder>>
  /\ CollectOnly

\* part_001:113  rget of the next id is issued
ColLoopFetch ==
  /\ cpc = "loop" /\ active = 0 /\ next < Len(idSet)
  /\ status' = StartCalls(status, next, 1)
  /\ fetchLog' = Append(fetchLog, idSet[next + 1])
  /\ next' = next + 1 /\ active' = 1
  /\ UNCHANGED <<cscript, limit, lpos, relisted, idSet, cpc, out, settled, matches>>
  /\ UNCHANGED <<failedList, gotIds>>
  /\ UNCHANGED <<fnResult, outOfOrder>>
  /\ CollectOnly

\* part_001:113-114  it answers (r = "match") or fails (.catch(()=>null))
ColLoopSettle(r) ==
  /\ cpc = "loop" /\ active = 1
  /\ status' = [status EXCEPT ![next] = "finished"]
  /\ out' = [out EXCEPT ![next] = r]
  /\ matches' = IF Keeps(r) THEN Append(matches, idSet[next]) ELSE matches
  /\ active' = 0
  /\ UNCHANGED <<cscript, limit, lpos, relisted, idSet, cpc, next, settled, fetchLog>>
  /\ UNCHANGED <<failedList, gotIds>>
  /\ UNCHANGED <<fnResult, outOfOrder>>
  /\ CollectOnly

\* part_001:116-117  the loop is over, matches is returned
ColLoopEnd ==
  /\ cpc = "loop" /\ active = 0 /\ next = Len(idSet)
  /\ cpc' = "done"
  /\ UNCHANGED <<cscript, limit, lpos, relisted, idSet, next, active, out, status,
                 settled, fetchLog, matches>>
  /\ UNCHANGED <<failedList, gotIds>>
  /\ UNCHANGED <<fnResult, outOfOrder>>
  /\ CollectOnly

\* part_005:309-313, 192-211  matchIds = [...allIds]; mapPool's first kick()
PoolStart ==
  /\ cpc = "listed" /\ cscript = "part_005"
  /\ LET n == Len(idSet)
         k == KickStarts(0, 0, n)
     IN /\ status' = StartCalls([i \in 1..n |-> "unstarted"], 0, k)
        /\ out' = [i \in 1..n |-> "empty"]
        /\ settled' = IF KickResolves(0, 0, n) THEN "resolved" ELSE "pending"
        /\ next' = IF KickResolves(0, 0, n) THEN 0 ELSE k
        /\ active' = IF KickResolves(0, 0, n) THEN 0 ELSE k
        /\ fetchLog' = IF KickResolves(0, 0, n) THEN fetchLog
                        ELSE fetchLog \o SubSeq(idSet, 1, k)
  /\ cpc' = "pool"
  /\ fnResult' = [i \in 1..Len(idSet) |-> "empty"]
  /\ UNCHANGED <<cscript, limit, lpos, relisted, idSet, matches>>
  /\ UNCHANGED <<failedList, gotIds, outOfOrder>>
  /\ CollectOnly

\* part_005:316-324, 203  fn settles with the match, or with null after a
\* failed getMatch, and .then stores it in out[i]
PoolSettle(i, r) ==
  /\ cpc = "pool" /\ i \in DOMAIN status /\ status[i] = "inflight"
  /\ status' = [status EXCEPT ![i] = "settled"]
  /\ out' = StoreAt(out, i, r)
  /\ fnResult' = [fnResult EXCEPT ![i] = r]
  /\ outOfOrder' = (outOfOrder \/ \E j \in 1..(i - 1) : status[j] = "inflight")
  /\ UNCHANGED <<cscript, limit, lpos, relisted, idSet, cpc, next, active, settled,
                 fetchLog, matches>>
  /\ UNCHANGED <<failedList, gotIds>>
  /\ CollectOnly

\* part_005:205-208, 197-209  .finally: active--, kick()
PoolFinally(i) ==
  /\ cpc = "pool" /\ i \in DOMAIN status /\ status[i] = "settled"
  /\ LET n == Len(idSet)
         act == active - 1
         done == KickResolves(act, next, n)
         k == IF done THEN 0 ELSE RefillStarts(act, next, n)
     IN /\ status' = StartCalls([status EXCEPT ![i] = "finished"], next, k)
        /\ settled' = IF done /\ settled = "pending" THEN "resolved" ELSE settled
        /\ next' = next + k
        /\ active' = act + k
        /\ fetchLog' = fetchLog \o SubSeq(idSet, next + 1, next + k)
  /\ UNCHANGED <<cscript, limit, lpos, relisted, idSet, cpc, out, matches>>
  /\ UNCHANGED <<failedList, gotIds>>
  /\ UNCHANGED <<fnResult, outOfOrder>>
  /\ CollectOnly

\* part_005:327  mapPool's promise has resolved: valid = matches.filter(Boolean)
PoolEnd ==
  /\ cpc = "pool" /\ settled = "resolved"
  /\ matches' = SelectSeq([i \in 1..Len(idSet) |-> IF Keeps(out[i]) THEN idSet[i] ELSE NoMatch],
                          LAMBDA id : id # NoMatch)
  /\ cpc' = "done"
  /\ UNCHANGED <<cscript, limit, lpos, relisted, idSet, next, active, out, status,
                 settled, fetchLog>>
  /\ UNCHANGED <<failedList, gotIds>>
  /\ UNCHANGED <<fnResult, outOfOrder>>
  /\ CollectOnly

FetchResults == {"match", "null"}

NextCollect ==
  \/ \E resp \in Listings : ColListOk(resp)
  \/ ColListFail
  \/ ColStartLoop
  \/ ColLoopFetch
  \/ \E r \in FetchResults : ColLoopSettle(r)
  \/ ColLoopEnd
  \/ PoolStart
  \/ \E i \in 1..Cardinality(MatchIds), r \in FetchResults : PoolSettle(i, r)
  \/ \E i \in 1..Cardinality(MatchIds) : PoolFinally(i)
  \/ PoolEnd

SpecCollect == InitCollect /\ [][NextCollect]_vars

\* every call that was started settles and every callback that is due runs:
\* a step that stays possible is taken
SpecCollectFair == SpecCollect /\ WF_vars(NextCollect)

\* C5: no match id is the subject of two detail fetches in a run, also when
\* two identities' listings returned it; and once the fetch phase is over,
\* every listed id has been fetched (so: exactly once).  A "detail fetch" is
\* one call of rget / getMatch for the id.
C5_FetchOnce ==
  /\ \A i, j \in 1..Len(fetchLog) : i # j => fetchLog[i] # fetchLog[j]
  /\ cpc = "done" => Range(fetchLog) = Range(idSet)

\* C5 witness: M1 came back in two listings and the run fetched it.
C5_Witness ==
  /\ cpc = "done"
  /\ "M1" \in relisted
  /\ "M1" \in Range(fetchLog)

Fetched == {idSet[i] : i \in {j \in DOMAIN out : out[j] = "match"}}

\* C19: a failed or malformed detail fetch drops that id alone: every unique
\* id is still fetched, and the records handed to aggregation are exactly the
\* matches that were fetched with success, each once.
C19_FailedFetchDropped ==
  cpc = "done" =>
    /\ Range(fetchLog) = Range(idSet)
    /\ \A i \in DOMAIN out : out[i] \in FetchResults
    /\ Range(matches) = Fetched
    /\ Len(matches) = Cardinality(Fetched)

\* C19 witness: a run in which one detail fetch failed and a later id was
\* fetched and handed on.
C19_Witness ==
  /\ cpc = "done"
  /\ \E i, j \in DOMAIN out :
       i < j /\ out[i] = "null" /\ out[j] = "match" /\ idSet[j] \in Range(matches)

\* C27: when a call of fn in mapPool fails the pool does not stall: the slot
\* it frees goes to the next pending item at once, so no item waits while a
\* slot is free, and once the pool has resolved every item was started and
\* has finished.
C27_NoStall ==
  (cscript = "part_005" /\ cpc = "pool") =>
    /\ ~(active * LimitUnit < limit /\ next < Len(idSet))
    /\ settled = "resolved" =>
         /\ next = Len(idSet)
         /\ \A i \in DOMAIN status : status[i] = "finished"

\* C27 witness: with one slot, the first call failed and its slot went to
\* the second item, which is in flight.
C27_Witness ==
  /\ cscript = "part_005" /\ cpc = "pool" /\ limit = LimitUnit
  /\ Len(idSet) >= 2
  /\ status[1] = "finished" /\ out[1] = "null"
  /\ status[2] = "inflight"

C33_PoolSettles ==
  (cscript = "part_005" /\ cpc = "pool") ~> (settled = "resolved")

\* C34: mapPool calls fn once for each item, resolves only after every
\* started call has settled, and when it resolves out[i] holds the result of
\* fn(items[i]) for every i, in whatever order the calls completed.
C34_PoolResults ==
  cscript = "part_005" =>
    /\ \A i, j \in 1..Len(fetchLog) : i # j => fetchLog[i] # fetchLog[j]
    /\ (cpc = "pool" /\ settled = "resolved") =>
         /\ fetchLog = idSet
         /\ \A i \in DOMAIN status : status[i] = "finished"
         /\ \A i \in DOMAIN out : out[i] \in FetchResults /\ out[i] = fnResult[i]

\* C34 witness: the pool has resolved after a later call settled ahead of
\* an earlier one, with results that differ.
C34_Witness ==
  /\ cscript = "part_005" /\ cpc = "pool" /\ settled = "resolved"
  /\ outOfOrder /\ Len(idSet) >= 2 /\ out[1] # out[2]

\* =====================================================================
\* Aggregation: queue filter, fold, min-sample filter, ranking
\*   part_001  src/unnamed/part_001:121-193            aggregate
\*   mjs1      src/scripts/update_comp_stats.mjs:66-147   aggregate, main
\*   mjs2      src/scripts/update_comp_stats.mjs:241-267  main
\*   ts1       src/src/updateCompStats.ts:96-143        main
\* =====================================================================
RankedQueue == 1100
HyperRollQueue == 1110
Top4Line == 4
TopN == 30

\* bound of the aggregation model: participants met in retained matches
MaxFold == 3

AggScripts == {"part_001", "mjs1", "mjs2", "ts1"}
\* <<script, queue allow-list, MIN_SAMPLE>> the model explores
AggConfigs ==
  {<<"part_001", {RankedQueue}, 2>>, <<"ts1", {RankedQueue}, 2>>,
   <<"mjs1", {RankedQueue}, 2>>, <<"mjs2", {}, 2>>}

\* info.queue_id of a fetched match: a number, or absent
QueueTag(id) == [present |-> TRUE, id |-> id]
NoQueueTag == [present |-> FALSE, id |-> 0]
QueueTags == {QueueTag(RankedQueue), QueueTag(HyperRollQueue), NoQueueTag}
InAllowList(tag) == tag.present /\ tag.id \in allowList

\* the queue filter of each script
\*   part_001:129  typeof queue_id === "number" && !KEEP_QUEUES.includes(..)
\*   mjs1:73       typeof queue_id === "number" && queue_id !== 1100
\*   mjs2:246      !QUEUES.length || QUEUES.includes(q)
\*   ts1:103       !cfg.QUEUES.includes(m.info.queue_id)
Retained(tag) ==
  CASE ascript = "part_001" -> ~(tag.present /\ tag.id \notin allowList)
    [] ascript = "mjs1" -> ~(tag.present /\ tag.id # RankedQueue)
    [] ascript = "mjs2" -> allowList = {} \/ InAllowList(tag)
    [] ascript = "ts1" -> InAllowList(tag)

\* participants the model explores
AggRosters == {<<UA, UB, UC>>, <<UC, UB, UA>>, <<UA, UB, UD>>, <<>>}
AggPlacements == {1, 2, 5}
Participants == [units : AggRosters, placement : AggPlacements]

\* the key each script groups a participant under
KeyFor(units) ==
  CASE ascript \in {"part_001", "mjs1"} -> AggregateKey(champByApi, units)
    [] ascript = "mjs2" -> boardKey(units)
    [] ascript = "ts1" -> compKey(units)

\* whether the script counts the participant at all
\*   mjs2:256-258  placement > 4 and empty keys are skipped
\*   ts1:105-106   empty keys are skipped
Counted(p) ==
  CASE ascript \in {"part_001", "mjs1"} -> TRUE
    [] ascript = "mjs2" -> ~(p.placement > Top4Line) /\ KeyFor(p.units) # <<>>
    [] ascript = "ts1" -> KeyFor(p.units) # <<>>

NewAgg == [games |-> 0, sumPlace |-> 0, top4 |-> 0, wins |-> 0]

\* part_001:146-149  the four counters of one composition
MutFoldCounters(agg, placement) ==
  [games |-> agg.games + 1,
   sumPlace |-> agg.sumPlace + placement,
   top4 |-> agg.top4 + (IF placement <= Top4Line + 1 THEN 1 ELSE 0),
   wins |-> agg.wins + (IF placement = 1 THEN 1 ELSE 0)]
FoldCounters(agg, placement) ==
  [games |-> agg.games + 1,
   sumPlace |-> agg.sumPlace + placement,
   top4 |-> agg.top4 + (IF placement <= Top4Line THEN 1 ELSE 0),
   wins |-> agg.wins + (IF placement = 1 THEN 1 ELSE 0)]

\* ts1:116-118 keeps plays, sum_place, top4; mjs2:259 keeps the count alone
FoldBy(agg, placement) ==
  CASE ascript \in {"part_001", "mjs1"} -> FoldCounters(agg, placement)
    [] ascript = "ts1" ->
         [FoldCounters(agg, placement) EXCEPT !.wins = 0]
    [] ascript = "mjs2" ->
         [agg EXCEPT !.games = agg.games + 1]

\* a fold that starts every participant from a new aggregate
MutFoldInto(map, key, placement) ==
  [k \in DOMAIN map \cup {key} |->
     IF k = key THEN FoldBy(NewAgg, placement) ELSE map[k]]
\* compMap.has(key) ? get : set(key, {games:0, ...}), then the counters
FoldInto(map, key, placement) ==
  LET agg == IF key \in DOMAIN map THEN map[key] ELSE NewAgg
  IN [k \in DOMAIN map \cup {key} |->
        IF k = key THEN FoldBy(agg, placement) ELSE map[k]]

\* the scripts whose aggregate keeps per-unit statistics (agg.units)
UnitStatScripts == {"part_001", "mjs1"}

\* part_001:152-154  agg.units.has(name) ? get : set(name, {games:0, ..}),
\* then ua.games += 1
TallyUnit(units, name) ==
  [n \in DOMAIN units \cup {name} |->
     IF n = name THEN (IF n \in DOMAIN units THEN units[n] ELSE 0) + 1
     ELSE units[n]]
\* part_001:151  for (const u of units)
RECURSIVE TallyUnits(_, _)
TallyUnits(units, names) ==
  IF names = <<>> THEN units
  ELSE TallyUnits(TallyUnit(units, names[1]), Tail(names))
\* the per-unit map of the composition under key, after one participant
TallyInto(umap, key, names) ==
  LET units == IF key \in DOMAIN umap THEN umap[key] ELSE <<>>
  IN [k \in DOMAIN umap \cup {key} |->
        IF k = key THEN TallyUnits(units, names) ELSE umap[k]]

\* +(x / games).toFixed(2), in hundredths
Round2(sum, games) == (200 * sum + games) \div (2 * games)

CompRow(key) ==
  [key |-> key, games |-> compMap[key].games,
   avg |-> Round2(compMap[key].sumPlace, Max(1, compMap[key].games))]

\* the comparator each script sorts with: TRUE when a goes before b
\*   part_001:192  (a.avg_place - b.avg_place) || (b.games - a.games)
\*   ts1:142, mjs1:146   a.avg_place - b.avg_place
\*   mjs2:266      b.sample - a.sample
Before(a, b) ==
  CASE ascript = "part_001" -> a.avg < b.avg \/ (a.avg = b.avg /\ a.games > b.games)
    [] ascript \in {"ts1", "mjs1"} -> a.avg < b.avg
    [] ascript = "mjs2" -> a.games > b.games

\* Array.prototype.sort with a comparator (stable)
RECURSIVE InsertRanked(_, _)
InsertRanked(x, sorted) ==
  IF sorted = <<>> THEN <<x>>
  ELSE IF Before(x, sorted[1]) THEN <<x>> \o sorted
  ELSE <<sorted[1]>> \o InsertRanked(x, Tail(sorted))
RECURSIVE RankSort(_)
RankSort(rows) ==
  IF rows = <<>> THEN <<>>
  ELSE InsertRanked(rows[Len(rows)], RankSort(SubSeq(rows, 1, Len(rows) - 1)))

\* the min-sample filter: part_001:165 and mjs2:265 have one, ts1 has none
PassesMinSample(row) ==
  CASE ascript = "part_001" -> ~(row.games < minSample)
    [] ascript \in {"mjs1", "mjs2"} -> row.games >= minSample
    [] ascript = "ts1" -> TRUE

\* part_001:192 and ts1:143 slice(0, 30); mjs2:267 slice(30)
Truncate(rows) ==
  IF ascript = "mjs2" THEN SubSeq(rows, TopN + 1, Len(rows)) ELSE Take(rows, TopN)

\* the comps list a script publishes from its map
Ranked ==
  RankSort(SelectSeq([i \in 1..Len(order) |-> CompRow(order[i])], PassesMinSample))
Published == Truncate(Ranked)

InitAgg ==
  /\ \E cfg \in AggConfigs :
       ascript = cfg[1] /\ allowList = cfg[2] /\ minSample = cfg[3]
  /\ apc = "between" /\ curQueue = NoQueueTag
  /\ compMap = <<>> /\ order = <<>> /\ foldLog = <<>> /\ nSeen = 0
  /\ comps = <<>> /\ unitMap = <<>>
  /\ ParkGate /\ ParkPublish /\ ParkKey /\ ParkCollect /\ ParkTransport /\ ParkSeeds /\ ParkResolve /\ ParkRun /\ ParkCred /\ ParkIdent /\ ParkThrottle /\ ParkCap

\* a fetched match passes the queue filter; its participants come next
AggBeginMatch(tag) ==
  /\ apc = "between" /\ Retained(tag)
  /\ curQueue' = tag
  /\ apc' = "in"
  /\ UNCHANGED <<ascript, allowList, minSample, compMap, order, foldLog, nSeen, comps, unitMap>>
  /\ AggOnly

\* a fetched match fails the queue filter: continue
AggSkipMatch(tag) ==
  /\ apc = "between" /\ ~Retained(tag)
  /\ UNCHANGED aggVars
  /\ AggOnly

\* one participant of the current match is handled
AggFold(p) ==
  /\ apc = "in" /\ nSeen < MaxFold
  /\ nSeen' = nSeen + 1
  /\ IF Counted(p)
       THEN LET key == KeyFor(p.units)
            IN /\ compMap' = FoldInto(compMap, key, p.placement)
               /\ order' = AddId(order, key)
               /\ foldLog' = Append(foldLog,
                    [units |-> p.units, placement |-> p.placement,
                     key |-> key, allowed |-> InAllowList(curQueue)])
               /\ unitMap' = IF ascript \in UnitStatScripts
                               THEN TallyInto(unitMap, key, AggUnits(champByApi, p.units))
                               ELSE unitMap
       ELSE UNCHANGED <<compMap, order, foldLog, unitMap>>
  /\ UNCHANGED <<ascript, allowList, minSample, apc, curQueue, comps>>
  /\ AggOnly

\* the participants of the current match are through
AggEndMatch ==
  /\ apc = "in"
  /\ apc' = "between"
  /\ curQueue' = NoQueueTag
  /\ UNCHANGED <<ascript, allowList, minSample, compMap, order, foldLog, nSeen, comps, unitMap>>
  /\ AggOnly

\* every match is through: filter, rank, truncate
AggFinish ==
  /\ apc = "between"
  /\ comps' = Published
  /\ apc' = "published"
  /\ UNCHANGED <<ascript, allowList, minSample, curQueue, compMap, order, foldLog, nSeen, unitMap>>
  /\ AggOnly

NextAgg ==
  \/ \E tag \in QueueTags : AggBeginMatch(tag)
  \/ \E tag \in QueueTags : AggSkipMatch(tag)
  \/ \E p \in Participants : AggFold(p)
  \/ AggEndMatch
  \/ AggFinish

SpecAgg == InitAgg /\ [][NextAgg]_vars

\* C7: a match whose queue tag is not in the allow-list (a missing tag
\* included) contributes to no aggregate counter (part_001, mjs2).
C7_QueueFilter ==
  ascript \in {"part_001", "mjs2"} =>
    \A i \in 1..Len(foldLog) : foldLog[i].allowed

RECURSIVE SumGames(_, _)
SumGames(map, keys) ==
  IF keys = <<>> THEN 0 ELSE map[keys[1]].games + SumGames(map, Tail(keys))

\* C8: before the min-sample filter, the games of all composition aggregates
\* add up to the number of participants of the retained records (part_001,
\* ts1).
C8_GamesSum ==
  ascript \in {"part_001", "ts1"} => SumGames(compMap, order) = nSeen

\* the log entries the script grouped under a key
LogOf(key) == {i \in 1..Len(foldLog) : foldLog[i].key = key}
RECURSIVE PlaceSum(_)
PlaceSum(idx) ==
  IF idx = {} THEN 0
  ELSE LET i == CHOOSE j \in idx : TRUE
       IN foldLog[i].placement + PlaceSum(idx \ {i})

KeyABC == <<97, 124, 98, 124, 99>>
KeyABD == <<97, 124, 98, 124, 100>>
\* participants {A,B,C} placed 2, {C,B,A} placed 1, {A,B,D} placed 5
ScenarioFolded ==
  /\ Len(foldLog) = 3
  /\ foldLog[1].units = <<UA, UB, UC>> /\ foldLog[1].placement = 2
  /\ foldLog[2].units = <<UC, UB, UA>> /\ foldLog[2].placement = 1
  /\ foldLog[3].units = <<UA, UB, UD>> /\ foldLog[3].placement = 5
ScenarioMap ==
  [k \in {KeyABC, KeyABD} |->
     IF k = KeyABC THEN [games |-> 2, sumPlace |-> 3, top4 |-> 2, wins |-> 1]
     ELSE [games |-> 1, sumPlace |-> 5, top4 |-> 0, wins |-> 0]]

\* C9: in part_001 every folded participant adds 1 to games and its
\* placement to the placement sum of its composition, 1 to top4 exactly when
\* it placed 4th or better and 1 to wins exactly when it placed 1st; folding
\* {A,B,C}@2, {C,B,A}@1, {A,B,D}@5 leaves "a|b|c" with games 2, sum 3,
\* top4 2, wins 1 and "a|b|d" with games 1, sum 5, top4 0, wins 0.
C9_FoldCounters ==
  ascript = "part_001" =>
    /\ DOMAIN compMap = {foldLog[i].key : i \in 1..Len(foldLog)}
    /\ \A k \in DOMAIN compMap :
         /\ compMap[k].games = Cardinality(LogOf(k))
         /\ compMap[k].sumPlace = PlaceSum(LogOf(k))
         /\ compMap[k].top4 =
              Cardinality({i \in LogOf(k) : foldLog[i].placement <= 4})
         /\ compMap[k].wins =
              Cardinality({i \in LogOf(k) : foldLog[i].placement = 1})
    /\ ScenarioFolded => compMap = ScenarioMap
C9_Witness == ascript = "part_001" /\ ScenarioFolded /\ compMap = ScenarioMap

\* C10: once the list is published, no composition with fewer than MIN_SAMPLE
\* games is in it, and every composition with at least MIN_SAMPLE games is
\* (part_001, ts1; fewer than 30 compositions).
C10_MinSample ==
  (ascript \in {"part_001", "ts1"} /\ apc = "published") =>
    /\ \A i \in 1..Len(comps) : comps[i].games >= minSample
    /\ \A k \in DOMAIN compMap :
         compMap[k].games >= minSample =>
           \E i \in 1..Len(comps) : comps[i].key = k

\* C11: the published list is in ascending order of average placement, and
\* two neighbours with the same average placement are in descending order of
\* games (part_001, mjs1, ts1).
C11_RankOrder ==
  (ascript \in {"part_001", "mjs1", "ts1"} /\ apc = "published") =>
    \A i \in 1..(Len(comps) - 1) :
      \/ comps[i].avg < comps[i + 1].avg
      \/ comps[i].avg = comps[i + 1].avg /\ comps[i].games >= comps[i + 1].games

\* C12: the published list is the first TopN entries of the ranked order
\* (mjs2, part_001).
C12_TopN ==
  (ascript \in {"part_001", "mjs2"} /\ apc = "published") =>
    comps = Take(Ranked, TopN)

\* ---------------------------------------------------------------------
\* part_001's aggregate over every placement a lobby gives and over rosters
\* that field the same unit twice
\* ---------------------------------------------------------------------
\* the largest placement the fold is given (a lobby has eight players)
MaxPlacement == 8
FoldRosters == {<<UA, UB>>, <<UA, UA, UB>>}
FoldParticipants == [units : FoldRosters, placement : 1..MaxPlacement]

InitFold ==
  /\ ascript = "part_001" /\ allowList = {RankedQueue} /\ minSample = 2
  /\ apc = "between" /\ curQueue = NoQueueTag
  /\ compMap = <<>> /\ order = <<>> /\ foldLog = <<>> /\ nSeen = 0
  /\ comps = <<>> /\ unitMap = <<>>
  /\ ParkGate /\ ParkPublish /\ ParkKey /\ ParkCollect /\ ParkTransport /\ ParkSeeds /\ ParkResolve /\ ParkRun /\ ParkCred /\ ParkIdent /\ ParkThrottle /\ ParkCap

NextFold ==
  \/ AggBeginMatch(QueueTag(RankedQueue))
  \/ \E p \in FoldParticipants : AggFold(p)
  \/ AggEndMatch
  \/ AggFinish

SpecFold == InitFold /\ [][NextFold]_vars

\* the four counters of one aggregate, in the order the claim compares them
CountersOrdered(agg) ==
  /\ agg.wins <= agg.top4 /\ agg.top4 <= agg.games
  /\ agg.games <= agg.sumPlace /\ agg.sumPlace <= MaxPlacement * agg.games
\* no counter of an aggregate the map holds goes down in this step
CountersKept ==
  \A k \in DOMAIN compMap :
    /\ k \in DOMAIN compMap'
    /\ compMap'[k].games >= compMap[k].games
    /\ compMap'[k].sumPlace >= compMap[k].sumPlace
    /\ compMap'[k].top4 >= compMap[k].top4
    /\ compMap'[k].wins >= compMap[k].wins

\* C35: with placements 1..8, every aggregate of part_001 has
\* wins <= top4 <= games and games <= sumPlace <= 8 * games after every fold
\* step, and no fold step lowers games, sumPlace, top4 or wins of an
\* aggregate.
C35_CountersBounded ==
  /\ [](ascript = "part_001" => \A k \in DOMAIN compMap : CountersOrdered(compMap[k]))
  /\ [][ascript = "part_001" => CountersKept]_vars
\* an aggregate of three games placed 1st, 4th and 8th
C35_Witness ==
  /\ ascript = "part_001"
  /\ \E k \in DOMAIN compMap :
       /\ compMap[k].games = 3 /\ compMap[k].wins = 1 /\ compMap[k].top4 = 2
       /\ compMap[k].sumPlace = 1 + Top4Line + MaxPlacement
       /\ {foldLog[i].placement : i \in LogOf(k)} = {1, Top4Line, MaxPlacement}

\* C36: the play count of every unit of a composition is at most the games
\* count of the composition, so that no pick rate exceeds 1, whatever the
\* rosters, a roster listing a unit twice included (part_001, mjs1).
C36_PickRateAtMostOne ==
  ascript \in UnitStatScripts =>
    \A k \in DOMAIN unitMap : \A n \in DOMAIN unitMap[k] :
      unitMap[k][n] <= compMap[k].games

\* =====================================================================
\* Transport: one request through throttle, fetch and the 429 retry
\*   part_001  src/unnamed/part_001:21-43                 throttleFor, rget
\*   mjs2      src/scripts/update_comp_stats.mjs:183-204  throttle, rget
\*   part_004  src/unnamed/part_004:14-33                 riot
\* =====================================================================
RetryLimit == 4
TooMany == 429
HttpOk == 200
NotFound == 404
ServerError == 500

\* bound of the transport model: fetch calls of one riot() request
MaxAttempts == 5

TransportScripts == {"part_001", "mjs2", "part_004"}
LoopScripts == {"part_001", "mjs2"}

\* the Retry-After header of a 429 response: seconds, or absent
RetryAfter(sec) == [present |-> TRUE, sec |-> sec]
NoRetryAfter == [present |-> FALSE, sec |-> 0]
RetryAfterHeaders == {NoRetryAfter, RetryAfter(0), RetryAfter(1)}

\* how long the script sleeps after a 429, in ms
\*   part_001:35-36  parseInt(h || "2", 10) * 1000, then sleep(ra || 2000)
\*   mjs2:194-195    Number(h || "2") * 1000, then sleep(ra)
\*   part_004:23-24  Number(h ?? 1), then (retryAfter + 0.5) * 1000
RetrySleepMs(h) ==
  CASE tscript = "part_001" ->
         LET ra == (IF h.present THEN h.sec ELSE 2) * 1000
         IN IF ra # 0 THEN ra ELSE 2000
    [] tscript = "mjs2" -> (IF h.present THEN h.sec ELSE 2) * 1000
    [] tscript = "part_004" -> (IF h.present THEN h.sec ELSE 1) * 1000 + 500

\* fetch calls a request may still issue: for (attempt = 0; attempt < 4; ..)
\* in rget; riot() calls itself again with no count (cut at MaxAttempts)
MayFetch ==
  IF tscript \in LoopScripts THEN attempts < RetryLimit ELSE attempts < MaxAttempts

InitTransport ==
  /\ tscript \in TransportScripts
  /\ tpc = IF tscript \in LoopScripts THEN "start" ELSE "ready"
  /\ attempts = 0 /\ passes = 0 /\ respLog = <<>> /\ sleepLog = <<>>
  /\ outcome = "none" /\ hdrLog = <<>>
  /\ ParkGate /\ ParkPublish /\ ParkKey /\ ParkCollect /\ ParkAgg /\ ParkSeeds /\ ParkResolve /\ ParkRun /\ ParkCred /\ ParkIdent /\ ParkThrottle /\ ParkCap

\* await throttleFor(url) / await throttle(), once, ahead of the loop
TrThrottle ==
  /\ tpc = "start" /\ tscript \in LoopScripts
  /\ passes' = passes + 1
  /\ tpc' = "ready"
  /\ UNCHANGED <<tscript, attempts, respLog, sleepLog, outcome>>
  /\ UNCHANGED hdrLog
  /\ TransportOnly

\* await fetch(url, ...)
TrFetch ==
  /\ tpc = "ready" /\ MayFetch
  /\ attempts' = attempts + 1
  /\ tpc' = "awaiting"
  /\ UNCHANGED <<tscript, passes, respLog, sleepLog, outcome>>
  /\ UNCHANGED hdrLog
  /\ TransportOnly

\* status 429: read Retry-After and sleep
TrTooMany(h) ==
  /\ tpc = "awaiting"
  /\ respLog' = Append(respLog, TooMany)
  /\ sleepLog' = Append(sleepLog, RetrySleepMs(h))
  /\ hdrLog' = Append(hdrLog, h)
  /\ tpc' = "sleeping"
  /\ UNCHANGED <<tscript, attempts, passes, outcome>>
  /\ TransportOnly

\* any other status with !r.ok: throw
TrFail(st) ==
  /\ tpc = "awaiting"
  /\ respLog' = Append(respLog, st)
  /\ outcome' = "http_error"
  /\ tpc' = "done"
  /\ UNCHANGED <<tscript, attempts, passes, sleepLog>>
  /\ UNCHANGED hdrLog
  /\ TransportOnly

\* r.ok: return r.json()
TrOk ==
  /\ tpc = "awaiting"
  /\ respLog' = Append(respLog, HttpOk)
  /\ outcome' = "json"
  /\ tpc' = "done"
  /\ UNCHANGED <<tscript, attempts, passes, sleepLog>>
  /\ UNCHANGED hdrLog
  /\ TransportOnly

\* the sleep is over: continue with the next iteration / return riot(url)
TrRetry ==
  /\ tpc = "sleeping" /\ MayFetch
  /\ tpc' = "ready"
  /\ UNCHANGED <<tscript, attempts, passes, respLog, sleepLog, outcome>>
  /\ UNCHANGED hdrLog
  /\ TransportOnly

\* the sleep is over and the loop has run out: throw "429 throttled too many
\* times" / "Too many 429s"
TrGiveUp ==
  /\ tpc = "sleeping" /\ tscript \in LoopScripts /\ ~MayFetch
  /\ outcome' = "rate_limited"
  /\ tpc' = "done"
  /\ UNCHANGED <<tscript, attempts, passes, respLog, sleepLog>>
  /\ UNCHANGED hdrLog
  /\ TransportOnly

NextTransport ==
  \/ TrThrottle
  \/ TrFetch
  \/ \E h \in RetryAfterHeaders : TrTooMany(h)
  \/ \E st \in {NotFound, ServerError} : TrFail(st)
  \/ TrOk
  \/ TrRetry
  \/ TrGiveUp

SpecTransport == InitTransport /\ [][NextTransport]_vars

\* C13: a request answered 429 every time issues at most 4 attempts and then
\* raises the rate-limited error (part_001 rget, part_004 riot).
C13_BoundedRetry ==
  tscript \in {"part_001", "part_004"} =>
    /\ attempts <= RetryLimit
    /\ (tpc = "done" /\ \A i \in 1..Len(respLog) : respLog[i] = TooMany)
         => (attempts = RetryLimit /\ outcome = "rate_limited")

\* C14: a request raises on a 5xx response only after all 4 attempts are
\* used up (part_001 rget, mjs2 rget).
C14_ServerErrorRetried ==
  (tscript \in LoopScripts /\ tpc = "done" /\ outcome = "http_error"
     /\ respLog[Len(respLog)] = ServerError)
    => attempts = RetryLimit

\* C15: every fetch attempt, retries included, has its own throttle pass
\* before it (part_001, mjs2).
C15_ThrottlePerAttempt ==
  tscript \in LoopScripts => attempts <= passes

\* C29: after a 429 the sleep before the next attempt is the Retry-After
\* value, in seconds, when the header is there, and 2 seconds when it is not
\* (part_001 rget, mjs2 rget).
C29_RetryAfterSleep ==
  tscript \in LoopScripts =>
    \A i \in 1..Len(sleepLog) :
      sleepLog[i] = (IF hdrLog[i].present THEN hdrLog[i].sec ELSE 2) * 1000

\* =====================================================================
\* Seed discovery: ladder tiers, then Diamond divisions page by page
\*   riot_ts   src/src/riot.ts:74-170       listDiamondPlusSeeds
\*   part_002  src/unnamed/part_002:22-83   fetchDiamondPlusSeeds
\* =====================================================================
RiotMaxPages == 12
Part002MaxPages == 10

\* bounds of the discovery model: the target count, the entries of one
\* response, the entries the ladder service hands out in a run
MaxTarget == 3
MaxPerPage == 2
MaxDelivered == 3

SeedScripts == {"riot_ts", "part_002"}
Kinds == <<"challenger", "grandmaster", "master">>
Divisions == <<"I", "II", "III", "IV">>
\* an entry carries a summoner id, or none (extractId gives null)
NoId == ""
EntryIds == {"s1", "s2", NoId}
EntryLists == UNION {[1..n -> EntryIds] : n \in 0..MaxPerPage}
\* a ladder response: a list of entries, or a failed request
LadderResponses ==
  {[ok |-> FALSE, entries |-> <<>>]} \cup {[ok |-> TRUE, entries |-> l] : l \in EntryLists}

MaxPages == IF sscript = "riot_ts" THEN RiotMaxPages ELSE Part002MaxPages
SeedIdsOf(list) == {list[i].id : i \in 1..Len(list)}
Unique(list) == Cardinality(SeedIdsOf(list))

\* riot.ts:91-98  if (id && !seen.has(id)) { seen.add(id); seeds.push(..) }
MutPushSeed(list, id, top) == Append(list, [id |-> id, top |-> top])
PushSeed(list, id, top) ==
  IF id # NoId /\ id \notin SeedIdsOf(list)
    THEN Append(list, [id |-> id, top |-> top]) ELSE list

\* the loop over one response's entries
\*   riot_ts   every entry goes through PushSeed
\*   part_002  (35-36, 59-60) push, then leave once seeds.length >= maxSeeds
RECURSIVE PushEntries(_, _, _)
PushEntries(list, entries, top) ==
  IF entries = <<>> THEN list
  ELSE IF sscript = "riot_ts"
    THEN PushEntries(PushSeed(list, entries[1], top), Tail(entries), top)
  ELSE LET pushed == Append(list, [id |-> entries[1], top |-> top])
       IN IF Len(pushed) >= maxSeeds THEN pushed
          ELSE PushEntries(pushed, Tail(entries), top)

\* part_002:71-80  dedupe by id and crop
RECURSIVE Dedupe(_, _)
Dedupe(list, acc) ==
  IF list = <<>> \/ Len(acc) >= maxSeeds THEN acc
  ELSE IF list[1].id \in SeedIdsOf(acc) THEN Dedupe(Tail(list), acc)
  ELSE Dedupe(Tail(list), Append(acc, list[1]))

\* part_002's count test, seeds.length >= maxSeeds; riot.ts has none
CountReached(list) == sscript = "part_002" /\ Len(list) >= maxSeeds

Pos(st, i, pg) == [stage |-> st, sidx |-> i, page |-> pg]
\* the division after division i, or the end of the walk
NextDivision(i) ==
  IF i < Len(Divisions) THEN Pos("diamond", i + 1, 1) ELSE Pos("collected", 0, 0)
\* where the walk stands after tier sidx answered
AfterTier(list) ==
  IF CountReached(list) THEN Pos("collected", 0, 0)
  ELSE IF sidx < Len(Kinds) THEN Pos("top", sidx + 1, 0)
  ELSE Pos("diamond", 1, 1)
\* a failed page that ends the whole walk
MutAfterPageAbort(resp, list) ==
  IF ~resp.ok THEN Pos("collected", 0, 0)
  ELSE IF CountReached(list) THEN Pos("collected", 0, 0)
  ELSE IF resp.entries = <<>> THEN NextDivision(sidx)
  ELSE IF page < MaxPages THEN Pos("diamond", sidx, page + 1)
  ELSE NextDivision(sidx)
\* an empty page that does not end its division
MutAfterPageOn(resp, list) ==
  IF CountReached(list) THEN Pos("collected", 0, 0)
  ELSE IF ~resp.ok /\ sscript = "part_002" THEN NextDivision(sidx)
  ELSE IF page < MaxPages THEN Pos("diamond", sidx, page + 1)
  ELSE NextDivision(sidx)
\* where the walk stands after page (sidx, page) answered
\*   riot_ts   a failed page is skipped, an empty page ends the division
\*   part_002  a failed page and an empty page both end the division
AfterPage(resp, list) ==
  IF CountReached(list) THEN Pos("collected", 0, 0)
  ELSE IF (resp.ok /\ resp.entries = <<>>) \/ (~resp.ok /\ sscript = "part_002")
    THEN NextDivision(sidx)
  ELSE IF page < MaxPages THEN Pos("diamond", sidx, page + 1)
  ELSE NextDivision(sidx)

\* the Diamond page requested last: none yet
NoRequest == [div |-> 0, page |-> 0, empty |-> FALSE]

InitSeeds ==
  /\ sscript \in SeedScripts
  /\ maxSeeds \in 1..MaxTarget
  /\ stage = "top" /\ sidx = 1 /\ page = 0
  /\ seeds = <<>> /\ seedOut = <<>> /\ delivered = 0
  /\ lateReq = FALSE /\ countStop = FALSE
  /\ asked = {} /\ failedAt = {} /\ lastReq = NoRequest
  /\ ParkGate /\ ParkPublish /\ ParkKey /\ ParkCollect /\ ParkAgg /\ ParkTransport /\ ParkResolve /\ ParkRun /\ ParkCred /\ ParkIdent /\ ParkThrottle /\ ParkCap

\* one unpaged tier is requested and its entries are taken
SeedTier(resp) ==
  /\ stage = "top"
  /\ delivered + Len(resp.entries) <= MaxDelivered
  /\ LET list == IF resp.ok THEN PushEntries(seeds, resp.entries, TRUE) ELSE seeds
         pos == AfterTier(list)
     IN /\ seeds' = list
        /\ stage' = pos.stage /\ sidx' = pos.sidx /\ page' = pos.page
        /\ countStop' = (countStop \/ CountReached(list))
  /\ delivered' = delivered + Len(resp.entries)
  /\ lateReq' = (lateReq \/ Unique(seeds) >= maxSeeds)
  /\ asked' = asked \cup {Kinds[sidx]}
  /\ failedAt' = IF resp.ok THEN failedAt ELSE failedAt \cup {"top"}
  /\ UNCHANGED lastReq
  /\ UNCHANGED <<sscript, maxSeeds, seedOut>>
  /\ SeedsOnly

\* one page of one Diamond division is requested and its entries are taken
SeedPage(resp) ==
  /\ stage = "diamond"
  /\ delivered + Len(resp.entries) <= MaxDelivered
  /\ LET list == IF resp.ok THEN PushEntries(seeds, resp.entries, FALSE) ELSE seeds
         pos == AfterPage(resp, list)
     IN /\ seeds' = list
        /\ stage' = pos.stage /\ sidx' = pos.sidx /\ page' = pos.page
        /\ countStop' = (countStop \/
             (CountReached(list) /\ ~(sidx = Len(Divisions) /\ page = MaxPages)))
  /\ delivered' = delivered + Len(resp.entries)
  /\ lateReq' = (lateReq \/ Unique(seeds) >= maxSeeds)
  /\ asked' = asked \cup {Divisions[sidx]}
  /\ failedAt' = IF resp.ok THEN failedAt ELSE failedAt \cup {"diamond"}
  /\ lastReq' = [div |-> sidx, page |-> page, empty |-> resp.ok /\ resp.entries = <<>>]
  /\ UNCHANGED <<sscript, maxSeeds, seedOut>>
  /\ SeedsOnly

\* the walk is over: riot.ts returns seeds, part_002 dedupes and crops
SeedReturn ==
  /\ stage = "collected"
  /\ seedOut' = IF sscript = "riot_ts" THEN seeds ELSE Dedupe(seeds, <<>>)
  /\ stage' = "done"
  /\ UNCHANGED <<sscript, maxSeeds, sidx, page, seeds, delivered, lateReq, countStop>>
  /\ UNCHANGED <<asked, failedAt, lastReq>>
  /\ SeedsOnly

NextSeeds ==
  \/ \E resp \in LadderResponses : SeedTier(resp)
  \/ \E resp \in LadderResponses : SeedPage(resp)
  \/ SeedReturn

SpecSeeds == InitSeeds /\ [][NextSeeds]_vars

\* C16: the returned seed list holds no summoner id twice, and every seed
\* taken from an unpaged tier stands before every seed taken from a Diamond
\* page.
C16_SeedsUniqueOrdered ==
  stage = "done" =>
    /\ \A i, j \in 1..Len(seedOut) : i # j => seedOut[i].id # seedOut[j].id
    /\ \A i, j \in 1..Len(seedOut) :
         (seedOut[i].top /\ ~seedOut[j].top) => i < j

\* C16 witness: a run that was handed the same id twice returned a list with
\* a tier seed and a Diamond seed.
C16_Witness ==
  /\ stage = "done" /\ sscript = "part_002"
  /\ Len(seeds) > Len(seedOut)
  /\ \E i, j \in 1..Len(seedOut) : seedOut[i].top /\ ~seedOut[j].top
  /\ \A i \in 1..Len(seeds) : seeds[i].id # NoId

\* C17: no ladder request is issued once the unique seeds number targetCount,
\* and a run returns fewer unique seeds than targetCount only if it did not
\* stop on its count test while tiers or pages were left.
C17_StopAtTarget ==
  /\ ~lateReq
  /\ (stage = "done" /\ Unique(seedOut) < maxSeeds) => ~countStop

\* the tiers and divisions of the walk
AllLadders == Range(Kinds) \cup Range(Divisions)

\* C22: a failed tier or division request is skipped: the walk still asks
\* every remaining tier and division and returns the seeds gathered, unless
\* its own count test ended it.
C22_FailedRequestSkipped ==
  /\ (stage \in {"collected", "done"} /\ ~CountReached(seeds)) => asked = AllLadders
  /\ stage = "done" =>
       seedOut = IF sscript = "riot_ts" THEN seeds ELSE Dedupe(seeds, <<>>)

\* C22 witness: a finished walk in which a tier request and a Diamond page
\* request failed, every tier and division was asked, and seeds came back.
C22_Witness ==
  /\ stage = "done" /\ failedAt = {"top", "diamond"}
  /\ asked = AllLadders /\ seedOut # <<>>

\* C26: the pages of a Diamond division are requested in increasing order
\* from page 1; after an empty page no further page of that division is
\* requested and the walk moves to the next division; a division gets at
\* most maxPages page requests (12 in riot.ts, 10 in part_002).
C26_PageWalk ==
  /\ lastReq.page <= MaxPages
  /\ stage = "diamond" =>
       /\ page \in 1..MaxPages
       /\ IF lastReq.div = sidx
            THEN page = lastReq.page + 1 /\ ~lastReq.empty
            ELSE page = 1 /\ sidx = lastReq.div + 1
  /\ (stage \in {"collected", "done"} /\ ~CountReached(seeds)) =>
       lastReq.div = Len(Divisions)

\* C26 witness: the second division is about to be asked for its page 1,
\* after the first one answered an empty page past its first page.
C26_Witness ==
  /\ stage = "diamond" /\ sidx = 2 /\ page = 1
  /\ lastReq.div = 1 /\ lastReq.page > 1 /\ lastReq.empty

\* C26 witness of the page bound: the last page a division may be asked for
\* answered entries and the walk went on to the next division.
C26_WitnessMaxPages ==
  /\ stage = "diamond" /\ sidx = 2 /\ page = 1
  /\ lastReq.div = 1 /\ lastReq.page = MaxPages /\ ~lastReq.empty

\* =====================================================================
\* Seed resolution: summoner id -> puuid for every seed of the batch
\*   mjs2       src/scripts/update_comp_stats.mjs:213-233  toPuuid, main
\*   riot_ts    src/src/riot.ts:177-188    getPUUIDBySummonerId, in a loop
\*   part_005a  src/unnamed/part_005:46-65 main of the first script
\* =====================================================================
\* bound of the resolution model: seeds in the batch
NumSeeds == 3

ResolveScripts == {"mjs2", "riot_ts", "part_005a"}
\* what one summoner lookup can answer: a body with a puuid, a body without
\* one, 404, any other transport error
LookupResults == {"puuid", "nopuuid", "notfound", "error"}
LookupThrows(res) == res \in {"notfound", "error"}

\* what the by-id lookup of a seed leaves behind
\*   mjs2:213-216      toPuuid returns s.puuid, or rejects when rget throws
\*   riot_ts:181-187   s?.puuid || null, and null from the catch
\*   part_005a:49-53   the puuid, or the catch goes on to the by-name lookup
ByIdOutcome(res) ==
  IF res = "puuid" THEN "resolved"
  ELSE IF ~LookupThrows(res) THEN "absent"
  ELSE IF rscript = "mjs2" THEN "thrown"
  ELSE IF rscript = "part_005a" THEN "byname"
  ELSE "absent"

\* mjs2 starts every lookup at once (Promise.all over map); the other two
\* await one seed after the other
NextSeed(i) ==
  /\ i \in DOMAIN rstate /\ rstate[i] = "pending"
  /\ rscript # "mjs2" => \A j \in 1..(i - 1) : rstate[j] \in {"resolved", "absent"}

\* if (puuid) puuids.push(puuid), for the scripts that push as they go
PushPuuid(list, i, st) ==
  IF rscript # "mjs2" /\ st = "resolved" THEN Append(list, i) ELSE list

\* (await Promise.all(...)).filter(Boolean)
ResolvedSeeds == SelectSeq([i \in 1..NumSeeds |-> i], LAMBDA i : rstate[i] = "resolved")

InitResolve ==
  /\ rscript \in ResolveScripts
  /\ rpc = "resolving"
  /\ rstate = [i \in 1..NumSeeds |-> "pending"]
  /\ puuids = <<>> /\ resLog = <<>>
  /\ ParkGate /\ ParkPublish /\ ParkKey /\ ParkCollect /\ ParkAgg /\ ParkTransport /\ ParkRun /\ ParkCred /\ ParkIdent /\ ParkThrottle /\ ParkCap
  /\ ParkSeeds

\* the by-id lookup of seed i settles
ResById(i, res) ==
  /\ rpc = "resolving" /\ NextSeed(i)
  /\ LET st == ByIdOutcome(res)
     IN /\ rstate' = [rstate EXCEPT ![i] = st]
        /\ puuids' = PushPuuid(puuids, i, st)
        /\ rpc' = IF st = "thrown" THEN "failed" ELSE rpc
  /\ resLog' = Append(resLog, <<i, res>>)
  /\ UNCHANGED rscript
  /\ ResolveOnly

\* part_005a:54-59  the by-name lookup of seed i settles
ResByName(i, res) ==
  /\ rpc = "resolving" /\ i \in DOMAIN rstate /\ rstate[i] = "byname"
  /\ LET st == IF res = "puuid" THEN "resolved" ELSE "absent"
     IN /\ rstate' = [rstate EXCEPT ![i] = st]
        /\ puuids' = PushPuuid(puuids, i, st)
  /\ resLog' = Append(resLog, <<i, res>>)
  /\ UNCHANGED <<rscript, rpc>>
  /\ ResolveOnly

\* every seed is through: the run goes on to match collection
ResDone ==
  /\ rpc = "resolving"
  /\ \A i \in DOMAIN rstate : rstate[i] \in {"resolved", "absent"}
  /\ puuids' = IF rscript = "mjs2" THEN ResolvedSeeds ELSE puuids
  /\ rpc' = "collecting"
  /\ UNCHANGED <<rscript, rstate, resLog>>
  /\ ResolveOnly

NextResolve ==
  \/ \E i \in 1..NumSeeds, res \in LookupResults : ResById(i, res)
  \/ \E i \in 1..NumSeeds, res \in LookupResults : ResByName(i, res)
  \/ ResDone

SpecResolve == InitResolve /\ [][NextResolve]_vars

\* C18: a failed lookup of one seed never halts the batch: the seed is left
\* out, every other seed is still resolved, and the run goes on to match
\* collection.
C18_ResolveNeverHalts ==
  /\ rpc # "failed"
  /\ rpc = "collecting" => puuids = ResolvedSeeds

\* =====================================================================
\* One run of the pipeline: static catalog, seeding, collection,
\* aggregation, publish
\*   part_001  src/unnamed/part_001:46-62, 196-228   loadStatic, main
\*   part_005  src/unnamed/part_005:226-231, 265-373 ddVersion, main
\* =====================================================================
\* bound of the run model: seeds, matches, comps a stage hands on
MaxStage == 2

RunScripts == {"part_001", "part_005"}
Placeholder == "unknown"
NoVersion == "undefined"
\* what the version list call can give: a list, an empty list, a failure
\* (network error, non-2xx for fetchJSON, a body that is not JSON)
VersionResults == {"list", "empty", "fail"}
\* what the two name-table calls can give
TableResults == {"tables", "fail"}

\* the version tag a script takes from an answered version list
\*   part_001:47-48   versions[0]
\*   part_005:230     versions?.[0] ?? 'unknown'
VersionTag(res) ==
  IF res = "list" THEN "v1"
  ELSE IF uscript = "part_005" THEN Placeholder ELSE NoVersion

\* where the run stands after the version list call
\*   part_001  goes on to the name tables; a failure rejects main (225-228)
\*   part_005  has no name tables; a failure rejects main (370-373)
AfterVersions(res) ==
  IF res = "fail" THEN "failed"
  ELSE IF uscript = "part_001" THEN "tables" ELSE "seeding"

CatalogFailed == \E i \in 1..Len(catalogLog) : catalogLog[i] = "fail"

InitRun ==
  /\ uscript \in RunScripts
  /\ upc = "versions" /\ patch = "" /\ catalogLog = <<>>
  /\ nSeeds = 0 /\ nMatches = 0 /\ nComps = 0
  /\ ParkGate /\ ParkPublish /\ ParkKey /\ ParkCollect /\ ParkAgg /\ ParkTransport /\ ParkCred /\ ParkIdent /\ ParkThrottle /\ ParkCap
  /\ ParkSeeds /\ ParkResolve

\* the version list call settles
RunVersions(res) ==
  /\ upc = "versions"
  /\ catalogLog' = Append(catalogLog, res)
  /\ patch' = IF res = "fail" THEN patch ELSE VersionTag(res)
  /\ upc' = AfterVersions(res)
  /\ UNCHANGED <<uscript, nSeeds, nMatches, nComps>>
  /\ RunOnly

\* part_001:50-59  the item and champion tables settle (Promise.all)
RunTables(res) ==
  /\ upc = "tables"
  /\ catalogLog' = Append(catalogLog, res)
  /\ upc' = IF res = "fail" THEN "failed" ELSE "seeding"
  /\ UNCHANGED <<uscript, patch, nSeeds, nMatches, nComps>>
  /\ RunOnly

\* seeds are discovered and resolved
RunSeed(n) ==
  /\ upc = "seeding"
  /\ nSeeds' = n
  /\ upc' = "collecting"
  /\ UNCHANGED <<uscript, patch, catalogLog, nMatches, nComps>>
  /\ RunOnly

\* match ids are listed and fetched
RunCollect(n) ==
  /\ upc = "collecting"
  /\ n <= nSeeds * MaxStage
  /\ nMatches' = n
  /\ upc' = "aggregating"
  /\ UNCHANGED <<uscript, patch, catalogLog, nSeeds, nComps>>
  /\ RunOnly

\* the matches are aggregated into comps
RunAggregate(n) ==
  /\ upc = "aggregating"
  /\ n <= nMatches
  /\ nComps' = n
  /\ upc' = "publishing"
  /\ UNCHANGED <<uscript, patch, catalogLog, nSeeds, nMatches>>
  /\ RunOnly

\* the publish step is over
RunPublish ==
  /\ upc = "publishing"
  /\ upc' = "done"
  /\ UNCHANGED <<uscript, patch, catalogLog, nSeeds, nMatches, nComps>>
  /\ RunOnly

NextRun ==
  \/ \E res \in VersionResults : RunVersions(res)
  \/ \E res \in TableResults : RunTables(res)
  \/ \E n \in 0..MaxStage : RunSeed(n)
  \/ \E n \in 0..MaxStage : RunCollect(n)
  \/ \E n \in 0..MaxStage : RunAggregate(n)
  \/ RunPublish

SpecRun == InitRun /\ [][NextRun]_vars

\* C20: a failure of the static catalog never blocks the run: it goes on
\* through seeding, collection, aggregation and publish, and the run that
\* lost the catalog carries the placeholder version tag.
C20_CatalogNeverBlocks ==
  /\ upc # "failed"
  /\ (CatalogFailed /\ upc \notin {"versions", "tables"}) => patch = Placeholder

\* =====================================================================
\* Startup with or without the credential RIOT_API_KEY
\*   mjs1     src/scripts/update_comp_stats.mjs:8-12, 138-142  no check
\*   mjs2     src/scripts/update_comp_stats.mjs:167-177        exit(1)
\*   riot_ts  src/src/riot.ts:177-201   helpers answering null / []
\* =====================================================================
\* bound of the startup model: calls a run makes before it finishes
MaxCalls == 4

CredScripts == {"mjs1", "mjs2", "riot_ts"}

\* mjs2:175-177 is the only startup test of the three
ChecksAtStartup(s) == s = "mjs2"

\* riot.ts:180, 193  the helper answers null / [] without a request
SkipsCall(s, key) == s = "riot_ts" /\ ~key

\* mjs1:139-141  the first script's calls are awaited with no catch; mjs2's
\* main wraps the run in try/catch, riot.ts:185, 198 catch per call
Uncaught(s) == s = "mjs1"

\* the answers a sent request can get: mjs1's third call (line 141, 35) is
\* the first one of the Riot API, which refuses a request without a token
Answers(s, key, sent) ==
  IF ~key /\ s = "mjs1" /\ sent >= 2 THEN {"failed"} ELSE {"ok", "failed"}

InitCred ==
  /\ vscript \in CredScripts
  /\ hasKey \in BOOLEAN
  /\ vpc = "load"
  /\ netCalls = 0 /\ skipped = 0 /\ callLog = <<>>
  /\ ParkGate /\ ParkPublish /\ ParkKey /\ ParkCollect /\ ParkAgg /\ ParkTransport /\ ParkRun /\ ParkIdent /\ ParkThrottle /\ ParkCap
  /\ ParkSeeds /\ ParkResolve

\* module load: the startup test, where the script has one
CredStartup ==
  /\ vpc = "load"
  /\ vpc' = IF ChecksAtStartup(vscript) /\ ~hasKey THEN "aborted" ELSE "running"
  /\ UNCHANGED <<vscript, hasKey, netCalls, skipped, callLog>>
  /\ CredOnly

\* one call that answers without a request
CredSkip ==
  /\ vpc = "running" /\ Len(callLog) < MaxCalls
  /\ SkipsCall(vscript, hasKey)
  /\ skipped' = skipped + 1
  /\ callLog' = Append(callLog, "skipped")
  /\ UNCHANGED <<vscript, hasKey, vpc, netCalls>>
  /\ CredOnly

\* one call that sends its request and gets answer a
CredCall(a) ==
  /\ vpc = "running" /\ Len(callLog) < MaxCalls
  /\ ~SkipsCall(vscript, hasKey)
  /\ a \in Answers(vscript, hasKey, netCalls)
  /\ netCalls' = netCalls + 1
  /\ callLog' = Append(callLog, a)
  /\ vpc' = IF a = "failed" /\ Uncaught(vscript) THEN "crashed" ELSE vpc
  /\ UNCHANGED <<vscript, hasKey, skipped>>
  /\ CredOnly

\* the run comes to its end
CredFinish ==
  /\ vpc = "running"
  /\ vpc' = "done"
  /\ UNCHANGED <<vscript, hasKey, netCalls, skipped, callLog>>
  /\ CredOnly

NextCred ==
  \/ CredStartup
  \/ CredSkip
  \/ \E a \in {"ok", "failed"} : CredCall(a)
  \/ CredFinish

SpecCred == InitCred /\ [][NextCred]_vars

\* C21: without the credential the run aborts with a fatal error before any
\* network request is issued, and no call answers an empty result in place
\* of the fatal error.
C21_AbortBeforeNetwork ==
  ~hasKey => /\ netCalls = 0
             /\ skipped = 0
             /\ vpc \in {"load", "aborted"}

\* =====================================================================
\* Resolved identities handed to match-id listing
\*   part_001  src/unnamed/part_001:88-106         getSeedPuuids, pullMatches
\*   ts1       src/src/updateCompStats.ts:69-93    main
\*   mjs2      src/scripts/update_comp_stats.mjs:213-237  toPuuid, main
\* =====================================================================
IdentScripts == {"part_001", "ts1", "mjs2"}
\* the identifiers a lookup can answer, a lookup that failed, or an answer
\* whose body has no puuid field (s.puuid is undefined)
NoPuuid == ""
Undefined == "undefined"
Puuids == {"p1", "p2"}
IdentAnswers == Puuids \cup {NoPuuid, Undefined}

\* Boolean(v), as in if (s?.puuid) and filter(Boolean)
Truthy(v) == v \notin {NoPuuid, Undefined}
\* toPuuid of updateCompStats.ts comes from a ./riot module that is not in
\* src/: a lookup with no identifier to give rejects
Ts1ToPuuidRejects(a) == ~Truthy(a)
\* the lookup call rejects: mjs2:214 rget throws on a failed request
Rejects(s, a) ==
  CASE s = "mjs2" -> a = NoPuuid
    [] s = "ts1" -> Ts1ToPuuidRejects(a)
    [] OTHER -> FALSE
\* what one lookup leaves in the list
\*   part_001:91-92  .catch(()=>null); if (s?.puuid) puuids.push(s.puuid)
\*   ts1:73-78       puuids.push(p) unless toPuuid rejected
\*   mjs2:215, 233   Promise.all keeps s.puuid of every lookup
Pushed(s, list, a) ==
  CASE s = "part_001" -> IF Truthy(a) THEN Append(list, a) ELSE list
    [] OTHER -> IF Rejects(s, a) THEN list ELSE Append(list, a)

\* part_001:94  [...new Set(puuids)] keeps the first of each identifier
RECURSIVE DedupeIdents(_, _)
DedupeIdents(list, acc) ==
  IF list = <<>> THEN acc
  ELSE IF list[1] \in Range(acc) THEN DedupeIdents(Tail(list), acc)
  ELSE DedupeIdents(Tail(list), Append(acc, list[1]))
\* the list the resolution step hands on
\*   part_001  line 94, through a Set
\*   ts1       line 70-80, the pushes as they came
\*   mjs2      line 233, the lookups' answers filtered for truthiness
MutResolvedList(s, list) == IF s = "part_001" THEN DedupeIdents(list, <<>>) ELSE list
ResolvedList(s, list) ==
  CASE s = "part_001" -> DedupeIdents(list, <<>>)
    [] s = "mjs2" -> SelectSeq(list, Truthy)
    [] OTHER -> list

\* ts1:72  if (puuids.length >= cfg.SEED_PLAYERS) break
CapReached == iscript = "ts1" /\ Len(idents) >= seedCap

InitIdent ==
  /\ iscript \in IdentScripts
  /\ seedCap \in IF iscript = "ts1" THEN 1..NumSeeds ELSE {NumSeeds}
  /\ ipc = "resolving" /\ ipos = 1
  /\ idents = <<>> /\ listed = <<>>
  /\ ParkGate /\ ParkPublish /\ ParkKey /\ ParkCollect /\ ParkAgg /\ ParkTransport /\ ParkSeeds /\ ParkResolve /\ ParkRun /\ ParkCred /\ ParkThrottle /\ ParkCap

\* the lookup of seed ipos answers a: an identifier is pushed, a failed
\* lookup is left out (part_001:91-92, ts1:73-78) or rejects the batch
\* (mjs2:213-216, 233)
IdentResolve(a) ==
  /\ ipc = "resolving" /\ ipos <= NumSeeds /\ ~CapReached
  /\ idents' = Pushed(iscript, idents, a)
  /\ ipos' = ipos + 1
  /\ ipc' = IF iscript = "mjs2" /\ Rejects(iscript, a) THEN "failed" ELSE ipc
  /\ UNCHANGED <<iscript, seedCap, listed>>
  /\ IdentOnly

\* every seed is through: the list is handed to the listing loop
IdentHandOn ==
  /\ ipc = "resolving" /\ (ipos > NumSeeds \/ CapReached)
  /\ idents' = ResolvedList(iscript, idents)
  /\ ipc' = "listing" /\ ipos' = 1
  /\ UNCHANGED <<iscript, seedCap, listed>>
  /\ IdentOnly

\* the match ids of identity ipos are listed (part_001:101-102, ts1:85-87,
\* mjs2:235-236)
IdentList ==
  /\ ipc = "listing" /\ ipos <= Len(idents)
  /\ listed' = Append(listed, idents[ipos])
  /\ ipos' = ipos + 1
  /\ UNCHANGED <<iscript, seedCap, ipc, idents>>
  /\ IdentOnly

IdentDone ==
  /\ ipc = "listing" /\ ipos > Len(idents)
  /\ ipc' = "done"
  /\ UNCHANGED <<iscript, seedCap, ipos, idents, listed>>
  /\ IdentOnly

NextIdent ==
  \/ \E a \in IdentAnswers : IdentResolve(a)
  \/ IdentHandOn
  \/ IdentList
  \/ IdentDone

SpecIdent == InitIdent /\ [][NextIdent]_vars

\* C23: the resolved identities handed to match-id listing hold no identifier
\* twice, and no identity has its match ids listed twice in a run, even when
\* two seeds resolve to the same identifier.
C23_NoIdentityTwice ==
  /\ ipc \in {"listing", "done"} =>
       \A i, j \in 1..Len(idents) : i # j => idents[i] # idents[j]
  /\ \A i, j \in 1..Len(listed) : i # j => listed[i] # listed[j]

NumThrottlers == 3
MaxDelay == 2
MaxClock == 3

ThrottleScripts == {"part_001", "mjs2"}
Hosts == {"platform", "region"}
Throttlers == 1..NumThrottlers
\* no fetch yet
NoFetch == -1

\* the stamp a call for host h reads and writes: part_001:24, 27 the entry
\* of h in the Map lastHit, mjs2:182-186 the one variable last
StampOf(s, h) == IF s = "part_001" THEN h ELSE "last"
Stamps(s) == {StampOf(s, h) : h \in Hosts}

\* part_001:24-25  next = (lastHit.get(host) || 0) + RATE_DELAY_MS;
\*                 wait = Math.max(0, next - now)
\* mjs2:184        wait = Math.max(0, RATE_DELAY_MS - (Date.now() - last))
WaitFor(stamp, now) == Max(0, stamp + rateDelay - now)

\* part_001 awaits every rget before the next one is started; the callers of
\* mjs2:233, 235 are started together by Promise.all
MayStart(s) == s = "mjs2" \/ \A c \in Throttlers : thpc[c] # "sleeping"

InitThrottle ==
  /\ hscript \in ThrottleScripts
  /\ rateDelay \in 1..MaxDelay
  /\ tnow = MaxDelay
  /\ lastHit = [k \in Stamps(hscript) |-> 0]
  /\ hostHit = [h \in Hosts |-> 0]
  /\ thHost \in [Throttlers -> Hosts]
  /\ thpc = [c \in Throttlers |-> "idle"]
  /\ until = [c \in Throttlers |-> 0]
  /\ waited = [c \in Throttlers |-> 0]
  /\ owed = [c \in Throttlers |-> 0]
  /\ fetchAt = [c \in Throttlers |-> NoFetch]
  /\ ParkGate /\ ParkPublish /\ ParkKey /\ ParkCollect /\ ParkAgg /\ ParkTransport /\ ParkSeeds /\ ParkResolve /\ ParkRun /\ ParkCred /\ ParkIdent /\ ParkCap

\* the stamp is set and the caller goes on to its fetch
Pass(c) ==
  /\ lastHit' = [lastHit EXCEPT ![StampOf(hscript, thHost[c])] = tnow]
  /\ hostHit' = [hostHit EXCEPT ![thHost[c]] = tnow]
  /\ fetchAt' = [fetchAt EXCEPT ![c] = tnow]

\* caller c enters the throttle: the wait is computed; with no wait the
\* stamp is set at once, otherwise the caller sleeps
ThCall(c) ==
  /\ thpc[c] = "idle" /\ MayStart(hscript)
  /\ LET wait == WaitFor(lastHit[StampOf(hscript, thHost[c])], tnow)
     IN /\ waited' = [waited EXCEPT ![c] = wait]
        /\ owed' = [owed EXCEPT ![c] = WaitFor(hostHit[thHost[c]], tnow)]
        /\ IF wait = 0
             THEN /\ Pass(c)
                  /\ thpc' = [thpc EXCEPT ![c] = "fetching"]
                  /\ UNCHANGED until
             ELSE /\ thpc' = [thpc EXCEPT ![c] = "sleeping"]
                  /\ until' = [until EXCEPT ![c] = tnow + wait]
                  /\ UNCHANGED <<lastHit, hostHit, fetchAt>>
  /\ UNCHANGED <<hscript, rateDelay, tnow, thHost>>
  /\ ThrottleOnly

\* the sleep of caller c is over: the stamp is set, the fetch starts
ThWake(c) ==
  /\ thpc[c] = "sleeping" /\ tnow >= until[c]
  /\ Pass(c)
  /\ thpc' = [thpc EXCEPT ![c] = "fetching"]
  /\ UNCHANGED <<hscript, rateDelay, tnow, thHost, until, waited, owed>>
  /\ ThrottleOnly

\* the clock moves on
ThTick ==
  /\ tnow < MaxDelay + MaxClock
  /\ tnow' = tnow + 1
  /\ UNCHANGED <<hscript, rateDelay, lastHit, hostHit, thpc, thHost, until, waited, owed, fetchAt>>
  /\ ThrottleOnly

NextThrottle ==
  \/ \E c \in Throttlers : ThCall(c)
  \/ \E c \in Throttlers : ThWake(c)
  \/ ThTick

SpecThrottle == InitThrottle /\ [][NextThrottle]_vars

\* C24: any two fetches to the same host start at least RATE_DELAY_MS apart,
\* for every interleaving of concurrent callers.
C24_SpacedFetches ==
  \A c, d \in DOMAIN fetchAt :
    (c # d /\ thHost[c] = thHost[d] /\ fetchAt[c] # NoFetch /\ fetchAt[d] # NoFetch)
      => (fetchAt[c] - fetchAt[d] >= rateDelay \/ fetchAt[d] - fetchAt[c] >= rateDelay)

\* C25: throttle state is per host: the wait of a call is the one its own
\* host's last request asks for, so a call to one host is never delayed
\* because of a request to another host.
C25_PerHostState ==
  \A c \in DOMAIN thpc : thpc[c] # "idle" => waited[c] = owed[c]

\* =====================================================================
\* pullMatches against its hard cap, with the id set counted by its size
\*   part_001  src/unnamed/part_001:98-118   pullMatches
\* =====================================================================
\* bounds of the cap model: COUNT_PER, and the identities handed in
MaxCountPer == 3
MaxPuuids == 45

\* part_001:104  ids.forEach(id => idSet.add(id)): the set grows by the ids
\* of the listing that it does not hold yet
Grown(size, fresh) == size + fresh
\* part_001:105  if (idSet.size >= 120) break
CapHit(size) == size >= HardCap

InitCap ==
  /\ countPer \in 1..MaxCountPer
  /\ hpos = 0 /\ hsize = 0 /\ detailReqs = 0
  /\ hpc = "listing"
  /\ ParkGate /\ ParkPublish /\ ParkKey /\ ParkCollect /\ ParkAgg /\ ParkTransport /\ ParkSeeds /\ ParkResolve /\ ParkRun /\ ParkCred /\ ParkIdent /\ ParkThrottle

\* the listing of the next identity answers at most COUNT_PER ids, fresh of
\* them new to the set (none when the call failed, line 103)
CapList(fresh) ==
  /\ hpc = "listing" /\ hpos < MaxPuuids
  /\ fresh \in 0..countPer
  /\ hsize' = Grown(hsize, fresh)
  /\ hpos' = hpos + 1
  /\ hpc' = IF CapHit(Grown(hsize, fresh)) THEN "fetching" ELSE "listing"
  /\ UNCHANGED <<countPer, detailReqs>>
  /\ CapOnly

\* the identities have run out
CapListEnd ==
  /\ hpc = "listing"
  /\ hpc' = "fetching"
  /\ UNCHANGED <<countPer, hpos, hsize, detailReqs>>
  /\ CapOnly

\* part_001:112-113  the detail request of the next id of the set
CapFetch ==
  /\ hpc = "fetching" /\ detailReqs < hsize
  /\ detailReqs' = detailReqs + 1
  /\ UNCHANGED <<countPer, hpos, hsize, hpc>>
  /\ CapOnly

\* part_001:116-117  every id was asked for: matches is returned
CapReturn ==
  /\ hpc = "fetching" /\ detailReqs = hsize
  /\ hpc' = "done"
  /\ UNCHANGED <<countPer, hpos, hsize, detailReqs>>
  /\ CapOnly

NextCap ==
  \/ \E fresh \in 0..MaxCountPer : CapList(fresh)
  \/ CapListEnd
  \/ CapFetch
  \/ CapReturn

SpecCap == InitCap /\ [][NextCap]_vars

\* C30: in pullMatches the unique match ids collected, and with them the
\* detail requests issued, never number more than the hard cap of 120.
C30_HardCap ==
  /\ hsize <= HardCap
  /\ detailReqs <= HardCap
====
